---- MODULE Spec2Model ----
(***************************************************************************)
(* Model of the story search / index service of arknights-story-reader     *)
(* (src-tauri/src/data_service.rs, commands.rs).                           *)
(*                                                                         *)
(* Text is a sequence of one-character strings.  The data directory is a   *)
(* small corpus of stories, the index database is the FTS table with its   *)
(* metadata, and every command of the service is an action.                *)
(***************************************************************************)
EXTENDS Integers, Sequences, FiniteSets, TLC

VARIABLES
    dataDir,    \* the extracted ArknightsGameData directory (data_dir)
    indexDb,    \* story_index.db: committed content (index_db_path)
    last,       \* the last command that returned: op, arguments, result
    events,     \* search-progress notifications emitted by the last command
    tasks,      \* commands in flight: one record per worker thread
    mutex       \* AppState.data_service: Mutex<DataService>

vars == <<dataDir, indexDb, last, events, tasks, mutex>>

(***************************************************************************)
(* Bounds of the model.                                                    *)
(***************************************************************************)
\* number of story ids that can occur in a corpus
NumStories == 3
\* SEARCH_RESULT_LIMIT is 500 in data_service.rs:31; the model keeps every
\* comparison against it and scales the number so that a corpus of
\* NumStories stories can reach and exceed it.
SEARCH_RESULT_LIMIT == 2
\* worker threads that run commands concurrently
NumTasks == 2
\* releases of the game data that can be installed
NumReleases == 3

INDEX_VERSION == 2

StoryIds == 1..NumStories

(***************************************************************************)
(* Characters and strings.  A character is a one-element string; the few   *)
(* non-ASCII characters the code singles out have symbolic names:          *)
(*   "IDSP" U+3000, "NBSP" U+00A0, "zh1".."zh4" CJK ideographs,            *)
(*   "zhComma" U+FF0C, "acute" U+0301, "fiLig" U+FB01, "eAcute" U+00E9,    *)
(*   "zhColon" U+FF1A, "backtick" U+0060, "ldquo" U+201C.                  *)
(***************************************************************************)
LowerSeq == << "a","b","c","d","e","f","g","h","i","j","k","l","m",
               "n","o","p","q","r","s","t","u","v","w","x","y","z" >>
UpperSeq == << "A","B","C","D","E","F","G","H","I","J","K","L","M",
               "N","O","P","Q","R","S","T","U","V","W","X","Y","Z" >>
Range(f) == { f[i] : i \in DOMAIN f }
Lower == Range(LowerSeq)
Upper == Range(UpperSeq)
Digit == {"0","1","2","3","4","5","6","7","8","9"}
Cjk == {"zh1", "zh2", "zh3", "zh4"}

\* char::is_ascii_alphanumeric
IsAsciiAlnum(ch) == ch \in Lower \cup Upper \cup Digit

\* char::is_ascii_digit
IsAsciiDigit(ch) == ch \in Digit

\* char::is_whitespace
IsWhitespace(ch) == ch \in {" ", "\t", "\n", "\r", "IDSP", "NBSP"}

\* char::is_ascii_punctuation
IsAsciiPunctuation(ch) ==
    ch \in {"!", "\"", "#", "$", "%", "&", "'", "(", ")", "*", "+", ",", "-",
            ".", "/", ":", ";", "<", "=", ">", "?", "@", "[", "\\", "]", "^",
            "_", "backtick", "{", "|", "}", "~"}

\* char::is_alphanumeric (Unicode Alphabetic or Numeric)
IsAlphanumeric(ch) == IsAsciiAlnum(ch) \/ ch \in Cjk \cup {"eAcute", "fiLig"}

\* char::to_ascii_lowercase / char::to_lowercase on one character
ToLowerChar(ch) ==
    IF ch \in Upper
    THEN LowerSeq[CHOOSE i \in 1..26 : UpperSeq[i] = ch]
    ELSE ch

\* char::to_uppercase on one character
ToUpperChar(ch) ==
    IF ch \in Lower
    THEN UpperSeq[CHOOSE i \in 1..26 : LowerSeq[i] = ch]
    ELSE ch

RECURSIVE MapLower(_)
MapLower(s) == IF s = <<>> THEN <<>> ELSE <<ToLowerChar(Head(s))>> \o MapLower(Tail(s))

\* number of bytes of the character in UTF-8
Utf8Len(ch) ==
    CASE ch \in Cjk \cup {"IDSP", "zhComma", "zhColon", "fiLig", "ldquo"} -> 3
      [] ch \in {"NBSP", "acute", "eAcute"} -> 2
      [] OTHER -> 1

\* is_common_punctuation
is_common_punctuation(ch) == IsAsciiPunctuation(ch) \/ ch \in {"zhComma", "zhColon"}

\* is_cjk
is_cjk(ch) == ch \in Cjk

\* NFKC of one character followed by to_lowercase and the filter on the
\* canonical combining class
NormChar(ch) ==
    CASE ch \in Upper -> <<ToLowerChar(ch)>>
      [] ch = "IDSP" -> <<" ">>
      [] ch = "NBSP" -> <<" ">>
      [] ch = "zhComma" -> <<",">>
      [] ch = "zhColon" -> <<":">>
      [] ch = "fiLig" -> <<"f", "i">>
      [] ch = "acute" -> <<>>
      [] OTHER -> <<ch>>

\* NFKC composes a base letter with a following combining mark when the
\* precomposed character exists
RECURSIVE NfkcCompose(_)
NfkcCompose(text) ==
    IF text = <<>> THEN <<>>
    ELSE IF Len(text) >= 2 /\ text[1] \in {"e", "E"} /\ text[2] = "acute"
         THEN (IF text[1] = "e" THEN <<"eAcute">> ELSE <<"EAcute">>)
              \o NfkcCompose(SubSeq(text, 3, Len(text)))
         ELSE <<Head(text)>> \o NfkcCompose(Tail(text))

RECURSIVE NormChars(_)
NormChars(text) ==
    IF text = <<>> THEN <<>>
    ELSE (IF Head(text) = "EAcute" THEN <<"eAcute">> ELSE NormChar(Head(text)))
         \o NormChars(Tail(text))

normalize_nfkc_lower_strip_marks(text) == NormChars(NfkcCompose(text))

RECURSIVE TrimStart(_)
TrimStart(s) ==
    IF s # <<>> /\ IsWhitespace(Head(s)) THEN TrimStart(Tail(s)) ELSE s

RECURSIVE TrimEnd(_)
TrimEnd(s) ==
    IF s # <<>> /\ IsWhitespace(s[Len(s)])
    THEN TrimEnd(SubSeq(s, 1, Len(s) - 1))
    ELSE s

\* str::trim
Trim(s) == TrimEnd(TrimStart(s))

\* the first position >= from (1-based) where needle occurs, 0 when none
FindFrom(haystack, needle, from) ==
    LET hits == { i \in from..(Len(haystack) - Len(needle) + 1) :
                    SubSeq(haystack, i, i + Len(needle) - 1) = needle }
    IN IF hits = {} THEN 0 ELSE CHOOSE i \in hits : \A j \in hits : i <= j

\* str::find
Find(haystack, needle) == FindFrom(haystack, needle, 1)

\* str::contains
Contains(haystack, needle) == Find(haystack, needle) # 0

\* str::starts_with
StartsWith(s, prefix) ==
    Len(s) >= Len(prefix) /\ SubSeq(s, 1, Len(prefix)) = prefix

\* s[from..] (1-based, inclusive)
Drop(s, from) == SubSeq(s, from, Len(s))

\* str::replace: every non-overlapping occurrence, left to right
RECURSIVE Replace(_, _, _)
Replace(s, pat, rep) ==
    LET i == Find(s, pat)
    IN IF i = 0 \/ pat = <<>> THEN s
       ELSE SubSeq(s, 1, i - 1) \o rep \o Replace(Drop(s, i + Len(pat)), pat, rep)

\* [String].join(sep)
RECURSIVE Join(_, _)
Join(parts, sep) ==
    IF parts = <<>> THEN <<>>
    ELSE IF Len(parts) = 1 THEN parts[1]
    ELSE parts[1] \o sep \o Join(Tail(parts), sep)

\* str::split on the characters of seps: the pieces, empty ones included
RECURSIVE SplitOn(_, _)
SplitOn(s, seps) ==
    LET cut == { i \in 1..Len(s) : s[i] \in seps }
    IN IF cut = {} THEN <<s>>
       ELSE LET i == CHOOSE k \in cut : \A j \in cut : k <= j
            IN <<SubSeq(s, 1, i - 1)>> \o SplitOn(Drop(s, i + 1), seps)

\* str::lines: split on "\n", a final empty piece is not a line
Lines(s) ==
    LET pieces == SplitOn(s, {"\n"})
    IN IF pieces[Len(pieces)] = <<>> THEN SubSeq(pieces, 1, Len(pieces) - 1)
       ELSE pieces

\* Option<T>
None == [some |-> FALSE]
Some(v) == [some |-> TRUE, val |-> v]

(***************************************************************************)
(* parser.rs: the markup parser.                                           *)
(***************************************************************************)
MinOf(S) == CHOOSE i \in S : \A j \in S : i <= j

RECURSIVE ByteLen(_)
\* str::len: the length in bytes
ByteLen(s) == IF s = <<>> THEN 0 ELSE Utf8Len(Head(s)) + ByteLen(Tail(s))

\* PARAGRAPH_TAG_RE.replace_all(text, "\n")
RECURSIVE ReplaceParagraphTags(_)
ReplaceParagraphTags(s) ==
    LET starts == { i \in 1..(Len(s) - 1) :
                      /\ s[i] = "<"
                      /\ s[i + 1] \in {"p", "P"}
                      /\ FindFrom(s, <<">">>, i + 2) # 0 }
    IN IF starts = {} THEN s
       ELSE LET i == MinOf(starts)
                j == FindFrom(s, <<">">>, i + 2)
            IN SubSeq(s, 1, i - 1) \o <<"\n">> \o ReplaceParagraphTags(Drop(s, j + 1))

\* GENERIC_TAG_RE.replace_all(text, "")
RECURSIVE RemoveGenericTags(_)
RemoveGenericTags(s) ==
    LET starts == { i \in 1..(Len(s) - 1) :
                      /\ s[i] = "<"
                      /\ FindFrom(s, <<">">>, i + 1) >= i + 2 }
    IN IF starts = {} THEN s
       ELSE LET i == MinOf(starts)
                j == FindFrom(s, <<">">>, i + 1)
            IN SubSeq(s, 1, i - 1) \o RemoveGenericTags(Drop(s, j + 1))

RECURSIVE TrimmedNonEmpty(_)
\* .map(|line| line.trim()).filter(|line| !line.is_empty())
TrimmedNonEmpty(lines) ==
    IF lines = <<>> THEN <<>>
    ELSE (IF Trim(Head(lines)) = <<>> THEN <<>> ELSE <<Trim(Head(lines))>>)
         \o TrimmedNonEmpty(Tail(lines))

Nickname == <<"{", "@", "n", "i", "c", "k", "n", "a", "m", "e", "}">>
Doctor == <<"zh3", "zh4">>

\* the end of clean_text: a text of several lines has its lines trimmed
\* and its empty lines removed
CollapseLines(cleaned) ==
    IF Contains(cleaned, <<"\n">>)
    THEN Join(TrimmedNonEmpty(Lines(cleaned)), <<"\n">>)
    ELSE cleaned

clean_text(text) ==
    IF text = <<>> THEN <<>>
    ELSE
    LET r1 == Replace(text, <<"\\", "r", "\\", "n">>, <<"\n">>)
        r2 == Replace(r1, <<"\\", "n">>, <<"\n">>)
        r3 == Replace(r2, <<"\r">>, <<"\n">>)
        r4 == Replace(r3, <<"IDSP">>, <<" ">>)
        r5 == Replace(r4, <<"NBSP">>, <<" ">>)
        r6 == ReplaceParagraphTags(r5)
        r7 == RemoveGenericTags(r6)
        r8 == Replace(r7, Nickname, Doctor)
    IN CollapseLines(Trim(r8))

\* has_meaningful_content after the trim
MeaningfulTrimmed(trimmed) ==
    IF trimmed = <<>> THEN FALSE
    ELSE IF ByteLen(trimmed) <= 3
            /\ \A i \in 1..Len(trimmed) : IsAsciiPunctuation(trimmed[i])
         THEN FALSE
         ELSE TRUE

has_meaningful_content(text) == MeaningfulTrimmed(Trim(text))

\* split_command_and_attrs with the position end_idx of the first of
\* '(' ' ' '=' in the trimmed text
SplitAt(inside, end_idx) ==
    IF inside = <<>> THEN [command |-> <<>>, attrs |-> None]
    ELSE [command |-> SubSeq(inside, 1, end_idx - 1),
          attrs |-> IF end_idx <= Len(inside)
                    THEN Some(Trim(Drop(inside, end_idx)))
                    ELSE None]

\* the smallest element of stops, or otherwise when there is none
FirstOr(stops, otherwise) == IF stops = {} THEN otherwise ELSE MinOf(stops)

SplitTrimmed(inside) ==
    SplitAt(inside,
            FirstOr({ i \in 1..Len(inside) : inside[i] \in {"(", " ", "="} },
                    Len(inside) + 1))

split_command_and_attrs(inside) == SplitTrimmed(Trim(inside))

\* [a-z0-9_] under (?i)
IsAttrKeyChar(ch) == IsAsciiAlnum(ch) \/ ch = "_"

\* the position after the whitespace run that starts at i
RECURSIVE SkipWs(_, _)
SkipWs(s, i) == IF i <= Len(s) /\ IsWhitespace(s[i]) THEN SkipWs(s, i + 1) ELSE i

\* the position after the run of characters satisfying the class at i
RECURSIVE SkipKey(_, _)
SkipKey(s, i) == IF i <= Len(s) /\ IsAttrKeyChar(s[i]) THEN SkipKey(s, i + 1) ELSE i

\* ATTR_RE anchored at position i: the match [key, value, end] or None
AttrMatchAt(s, i) ==
    LET k == SkipKey(s, i)
        e == SkipWs(s, k)
        q == SkipWs(s, e + 1)
        c == FindFrom(s, <<"\"">>, q + 1)
    IN IF /\ k > i
          /\ e <= Len(s) /\ s[e] = "="
          /\ q <= Len(s) /\ s[q] = "\""
          /\ c # 0
       THEN Some([key |-> SubSeq(s, i, k - 1),
                  value |-> SubSeq(s, q + 1, c - 1),
                  end |-> c])
       ELSE None

\* ATTR_RE.captures_iter(source): the matches from position from on
RECURSIVE AttrMatches(_, _)
AttrMatches(s, from) ==
    LET starts == { i \in from..Len(s) : AttrMatchAt(s, i).some }
    IN IF starts = {} THEN <<>>
       ELSE LET m == AttrMatchAt(s, MinOf(starts)).val
            IN <<[key |-> MapLower(m.key), value |-> m.value]>>
               \o AttrMatches(s, m.end + 1)

\* the HashMap of parse_attributes: a later pair replaces an earlier one
\* the HashMap filled from the matches ms
AttrMap(ms) ==
    [k \in { ms[i].key : i \in DOMAIN ms } |->
        ms[CHOOSE i \in DOMAIN ms :
             ms[i].key = k /\ \A j \in DOMAIN ms : ms[j].key = k => j <= i].value]

parse_attributes(source) == AttrMap(AttrMatches(source, 1))

\* attrs.get(key)
AttrGet(attrs, key) == IF key \in DOMAIN attrs THEN Some(attrs[key]) ELSE None

RECURSIVE TrimStartChar(_, _)
\* str::trim_start_matches(ch)
TrimStartChar(s, ch) ==
    IF s # <<>> /\ Head(s) = ch THEN TrimStartChar(Tail(s), ch) ELSE s

RECURSIVE TrimEndChar(_, _)
TrimEndChar(s, ch) ==
    IF s # <<>> /\ s[Len(s)] = ch
    THEN TrimEndChar(SubSeq(s, 1, Len(s) - 1), ch)
    ELSE s

HumanizePrefixes ==
    << <<"c","h","a","r","_">>, <<"n","p","c","_">>, <<"a","v","g","_">>,
       <<"a","v","a","t","a","r","_">>, <<"t","r","a","p","_">>,
       <<"v","o","i","c","e","_">>, <<"i","t","e","m","_">>,
       <<"a","c","t","_">>, <<"s","t","o","r","y","_">> >>

RECURSIVE HumanizeParts(_)
\* the filter and the map over the split pieces
HumanizeParts(pieces) ==
    IF pieces = <<>> THEN <<>>
    ELSE LET part == Head(pieces)
             keep == /\ Trim(part) # <<>>
                     /\ ~ (\A i \in 1..Len(part) : IsAsciiDigit(part[i]))
         IN (IF keep THEN << <<ToUpperChar(part[1])>> \o Tail(part) >> ELSE <<>>)
            \o HumanizeParts(Tail(pieces))

RECURSIVE Dedup(_)
\* Vec::dedup: consecutive equal elements collapse to one
Dedup(parts) ==
    IF Len(parts) <= 1 THEN parts
    ELSE IF parts[1] = parts[2] THEN Dedup(Tail(parts))
    ELSE <<parts[1]>> \o Dedup(Tail(parts))

\* the loop over the prefixes: the first prefix the value starts with is
\* cut off
StripHumanizePrefix(value, hits) ==
    IF hits = {} THEN value
    ELSE Drop(value, Len(HumanizePrefixes[MinOf(hits)]) + 1)

HumanizePrefixHits(value) ==
    { i \in DOMAIN HumanizePrefixes : StartsWith(value, HumanizePrefixes[i]) }

\* the end of humanize_identifier
HumanizeJoin(raw, parts) ==
    IF parts = <<>> THEN Trim(raw) ELSE Join(Dedup(parts), <<" ">>)

\* the split of the value without its prefix
HumanizeSplit(value) ==
    HumanizeParts(SplitOn(StripHumanizePrefix(value, HumanizePrefixHits(value)),
                          {"_", "#"}))

humanize_identifier(raw) ==
    HumanizeJoin(raw,
        HumanizeSplit(TrimStartChar(TrimEndChar(TrimStartChar(Trim(raw), "\""), "\""),
                                    "$")))

\* clean_dialog_head after the trim
HumanizeNonEmpty(trimmed) ==
    IF trimmed = <<>> THEN <<>> ELSE humanize_identifier(trimmed)

clean_dialog_head(raw) == HumanizeNonEmpty(Trim(raw))

K_name == <<"n","a","m","e">>
K_text == <<"t","e","x","t">>
K_head == <<"h","e","a","d">>
K_avatarid == <<"a","v","a","t","a","r","i","d">>
K_options == <<"o","p","t","i","o","n","s">>
K_dialoghead == <<"d","i","a","l","o","g","h","e","a","d">>
K_alignment == <<"a","l","i","g","n","m","e","n","t">>

\* `if has_meaningful_content(&cleaned) { return Some(cleaned) }`, else
\* what the rest of resolve_speaker gives
MeaningfulOr(cleaned, otherwise) ==
    IF has_meaningful_content(cleaned) THEN Some(cleaned) ELSE otherwise

\* one `if let Some(..) = attrs.get(key)` of resolve_speaker for an
\* identifier attribute
IdentifierSpeaker(attrs, key, otherwise) ==
    IF key \in DOMAIN attrs
    THEN MeaningfulOr(humanize_identifier(attrs[key]), otherwise)
    ELSE otherwise

\* the `if let Some(name) = attrs.get("name")` of resolve_speaker
NameSpeaker(attrs, otherwise) ==
    IF K_name \in DOMAIN attrs
    THEN MeaningfulOr(clean_text(attrs[K_name]), otherwise)
    ELSE otherwise

resolve_speaker(attrs) ==
    NameSpeaker(attrs,
        IdentifierSpeaker(attrs, K_head, IdentifierSpeaker(attrs, K_avatarid, None)))

\* remainder text, else the text attribute, cleaned
RemainderOrTextAttr(attrs, remainder) ==
    clean_text(IF remainder = <<>>
               THEN (IF K_text \in DOMAIN attrs THEN attrs[K_text] ELSE <<>>)
               ELSE remainder)

\* the segment of parse_dialog_like for a text with a speaker or without
DialogLike(text, speaker) ==
    IF ~ has_meaningful_content(text) THEN None
    ELSE IF speaker.some
    THEN Some([type |-> "Dialogue", character_name |-> speaker.val, text |-> text])
    ELSE Some([type |-> "Narration", text |-> text])

parse_dialog_like(attrs, remainder) ==
    DialogLike(RemainderOrTextAttr(attrs, remainder), resolve_speaker(attrs))

K_option == <<"o","p","t","i","o","n">>

\* the position after the run of ASCII digits that starts at i
RECURSIVE SkipDigits(_, _)
SkipDigits(s, i) == IF i <= Len(s) /\ IsAsciiDigit(s[i]) THEN SkipDigits(s, i + 1) ELSE i

\* DECISION_NUMBERED_RE anchored at position i: [value, end] or None
OptionMatchAt(s, i) ==
    LET d == i + 6
        e == SkipDigits(s, d)
        c == FindFrom(s, <<"\"">>, e + 2)
    IN IF /\ i + 5 <= Len(s)
          /\ MapLower(SubSeq(s, i, i + 5)) = K_option
          /\ e > d
          /\ e + 1 <= Len(s) /\ s[e] = "=" /\ s[e + 1] = "\""
          /\ c >= e + 3
       THEN Some([value |-> SubSeq(s, e + 2, c - 1), end |-> c])
       ELSE None

\* DECISION_NUMBERED_RE.captures_iter(source): the captured option texts
RECURSIVE OptionMatches(_, _)
OptionMatches(s, from) ==
    LET starts == { i \in from..Len(s) : OptionMatchAt(s, i).some }
    IN IF starts = {} THEN <<>>
       ELSE LET m == OptionMatchAt(s, MinOf(starts)).val
            IN <<m.value>> \o OptionMatches(s, m.end + 1)

RECURSIVE CleanNonEmpty(_)
\* .map(clean_text).filter(|s| !s.is_empty())
CleanNonEmpty(items) ==
    IF items = <<>> THEN <<>>
    ELSE SelectSeq(<<clean_text(Head(items))>>, LAMBDA t : t # <<>>)
         \o CleanNonEmpty(Tail(items))

\* Option<String>::map(|s| s.trim())
TrimOpt(o) == IF o.some THEN Some(Trim(o.val)) ELSE None

C_name == <<"n","a","m","e">>
C_multiline == <<"m","u","l","t","i","l","i","n","e">>
C_decision == <<"d","e","c","i","s","i","o","n">>
C_popupdialog == <<"p","o","p","u","p","d","i","a","l","o","g">>
C_tutorial == <<"t","u","t","o","r","i","a","l">>
C_subtitle == <<"s","u","b","t","i","t","l","e">>
C_sticker == <<"s","t","i","c","k","e","r">>
C_header == <<"h","e","a","d","e","r">>
C_dialog == <<"d","i","a","l","o","g">>
C_voicewithin == <<"v","o","i","c","e","w","i","t","h","i","n">>
C_narration == <<"n","a","r","r","a","t","i","o","n">>
C_animtext == <<"a","n","i","m","t","e","x","t">>
C_title == <<"t","i","t","l","e">>
C_div == <<"d","i","v">>
C_avatarid == <<"a","v","a","t","a","r","i","d">>
C_isavatarright == <<"i","s","a","v","a","t","a","r","r","i","g","h","t">>

\* .filter(|s| !s.is_empty()) on an Option<String>
NonEmptyOpt(text) == IF text # <<>> THEN Some(text) ELSE None

\* Some(segment) pushed to the segments, None skipped
OptSeq(o) == IF o.some THEN <<o.val>> ELSE <<>>

\* "name" and "multiline"
NamedDialogue(attrs, text) ==
    IF K_name \notin DOMAIN attrs \/ text = <<>> THEN None
    ELSE Some([type |-> "Dialogue", character_name |-> Trim(attrs[K_name]),
               text |-> text])

\* "decision": the options attribute split on ';', else the numbered
\* option attributes
DecisionOptions(attrs, attr_source, inside) ==
    CleanNonEmpty(IF K_options \in DOMAIN attrs
                  THEN SplitOn(attrs[K_options], {";"})
                  ELSE OptionMatches(IF attr_source.some THEN attr_source.val
                                     ELSE inside, 1))

DecisionSegment(options) ==
    IF options = <<>> THEN None ELSE Some([type |-> "Decision", options |-> options])

\* "popupdialog" and "tutorial"
DialogHeadSpeaker(attrs) ==
    IF K_dialoghead \in DOMAIN attrs
    THEN NonEmptyOpt(clean_dialog_head(attrs[K_dialoghead]))
    ELSE None

SystemSegment(text, speaker) ==
    IF text = <<>> THEN None
    ELSE Some([type |-> "System", speaker |-> speaker, text |-> text])

\* "subtitle" and "sticker": the text attribute, cleaned, when not empty
TextAttr(attrs) ==
    IF K_text \in DOMAIN attrs THEN NonEmptyOpt(clean_text(attrs[K_text])) ELSE None

TextAttrSegment(type, text, attrs) ==
    IF ~ text.some THEN None
    ELSE Some([type |-> type, text |-> text.val,
               alignment |-> TrimOpt(AttrGet(attrs, K_alignment))])

\* "header"
HeaderSegment(title) ==
    IF title = <<>> THEN None ELSE Some([type |-> "Header", title |-> title])

\* the segment dropped only when its text is empty
MeaningfulSegmentNonEmpty(text, segment) ==
    IF text = <<>> THEN None ELSE Some(segment)

\* `if !has_meaningful_content(&text) { return None }`, then the segment
MeaningfulSegment(text, segment) ==
    IF ~ has_meaningful_content(text) THEN None ELSE Some(segment)

NarrationSegment(text) == MeaningfulSegment(text, [type |-> "Narration", text |-> text])

\* "animtext": clean_text(remainder).if_empty_then(text attribute), trimmed
AnimText(attrs, text) ==
    Trim(IF Trim(text) = <<>>
         THEN (IF K_text \in DOMAIN attrs THEN clean_text(attrs[K_text]) ELSE <<>>)
         ELSE text)

AnimSegment(text) ==
    MeaningfulSegment(text, [type |-> "Sticker", text |-> text, alignment |-> None])

\* the match on the command name; text is clean_text(remainder)
ParseCommand(command, attr_source, inside, attrs, remainder, text) ==
    CASE command \in {C_name, C_multiline} -> NamedDialogue(attrs, text)
      [] command = C_decision ->
            DecisionSegment(DecisionOptions(attrs, attr_source, inside))
      [] command \in {C_popupdialog, C_tutorial} ->
            SystemSegment(text, DialogHeadSpeaker(attrs))
      [] command = C_subtitle -> TextAttrSegment("Subtitle", TextAttr(attrs), attrs)
      [] command = C_sticker -> TextAttrSegment("Sticker", TextAttr(attrs), attrs)
      [] command = C_header -> HeaderSegment(text)
      [] command \in {C_dialog, C_voicewithin} -> parse_dialog_like(attrs, remainder)
      [] command = C_narration ->
            NarrationSegment(RemainderOrTextAttr(attrs, remainder))
      [] command = C_animtext -> AnimSegment(AnimText(attrs, text))
      [] command = C_title ->
            MeaningfulSegment(text, [type |-> "Header", title |-> text])
      [] command = C_div ->
            MeaningfulSegment(text, [type |-> "Subtitle", text |-> text,
                                     alignment |-> None])
      [] command \in {C_avatarid, C_isavatarright} ->
            MeaningfulSegment(text, [type |-> "System",
                                     speaker |-> resolve_speaker(attrs),
                                     text |-> text])
      [] OTHER -> NarrationSegment(text)

\* parse_command_line once the command is split from its attributes
CommandSplit(split, inside, attrs, remainder) ==
    ParseCommand(MapLower(split.command), split.attrs, inside, attrs, remainder,
                 clean_text(remainder))

\* parse_command_line from the text inside the brackets and the text
\* after them
CommandParts(inside, remainder) ==
    CommandSplit(split_command_and_attrs(inside), inside, parse_attributes(inside),
                 remainder)

\* parse_command_line with the position of the first ']' (0: none)
CommandLine(line, end) ==
    IF end = 0 THEN None
    ELSE CommandParts(SubSeq(line, 2, end - 1), Trim(Drop(line, end + 1)))

parse_command_line(line) == CommandLine(line, Find(line, <<"]">>))

\* a line that is no command: narration, when something is left of it
NarrationLine(text) ==
    IF text # <<>> THEN <<[type |-> "Narration", text |-> text]>> ELSE <<>>

\* the body of the loop of parse_story_text for one trimmed line
LineSegments(line) ==
    IF line = <<>> THEN <<>>
    ELSE IF line[1] = "[" THEN OptSeq(parse_command_line(line))
    ELSE NarrationLine(clean_text(line))

\* a segment put before the segments of the following lines, merged with
\* the first of them when both are Dialogue of one speaker
MergeHead(first, rest) ==
    IF /\ first # <<>> /\ rest # <<>>
       /\ first[1].type = "Dialogue" /\ rest[1].type = "Dialogue"
       /\ first[1].character_name = rest[1].character_name
    THEN <<[rest[1] EXCEPT !.text = first[1].text \o <<"\n">> \o @]>> \o Tail(rest)
    ELSE first \o rest

\* the loop of parse_story_text merging consecutive lines of one speaker
RECURSIVE ParseLinesMerging(_)
ParseLinesMerging(lines) ==
    IF lines = <<>> THEN <<>>
    ELSE MergeHead(LineSegments(Trim(Head(lines))), ParseLinesMerging(Tail(lines)))

RECURSIVE ParseLines(_)
\* the loop of parse_story_text over content.lines()
ParseLines(lines) ==
    IF lines = <<>> THEN <<>>
    ELSE LineSegments(Trim(Head(lines))) \o ParseLines(Tail(lines))

\* str::lines also removes the "\r" that ends a line
RECURSIVE StripCr(_)
StripCr(lines) ==
    IF lines = <<>> THEN <<>>
    ELSE LET l == Head(lines)
         IN <<IF l # <<>> /\ l[Len(l)] = "\r" THEN SubSeq(l, 1, Len(l) - 1) ELSE l>>
            \o StripCr(Tail(lines))

\* ParsedStoryContent.segments
parse_story_text(content) == ParseLines(StripCr(Lines(content)))

RECURSIVE flatten_parts(_)
flatten_parts(segments) ==
    IF segments = <<>> THEN <<>>
    ELSE LET seg == Head(segments)
             part == CASE seg.type = "Dialogue" ->
                             seg.character_name \o <<"zhColon">> \o seg.text
                       [] seg.type = "Decision" ->
                             Join(seg.options, <<" ", "/", " ">>)
                       [] seg.type = "Header" -> seg.title
                       [] OTHER -> seg.text
         IN <<part>> \o flatten_parts(Tail(segments))

flatten_segments(segments) == Join(flatten_parts(segments), <<"\n">>)

(***************************************************************************)
(* data_service.rs: tokenizer, query compiler, context extractor.          *)
(***************************************************************************)
\* tokenize_for_fts without the push of the ASCII buffer after the loop
RECURSIVE TokenizeLoopNoFlush(_, _, _)
TokenizeLoopNoFlush(text, acc, buf) ==
    IF text = <<>> THEN acc
    ELSE IF IsAsciiAlnum(Head(text))
    THEN TokenizeLoopNoFlush(Tail(text), acc, Append(buf, ToLowerChar(Head(text))))
    ELSE IF IsWhitespace(Head(text)) \/ is_common_punctuation(Head(text))
    THEN TokenizeLoopNoFlush(Tail(text), IF buf # <<>> THEN Append(acc, buf) ELSE acc,
                             <<>>)
    ELSE TokenizeLoopNoFlush(Tail(text),
                             Append(IF buf # <<>> THEN Append(acc, buf) ELSE acc,
                                    <<ToLowerChar(Head(text))>>),
                             <<>>)

\* the loop of tokenize_for_fts over the normalized characters:
\* acc is the token list, buf the ascii_buffer
RECURSIVE TokenizeLoop(_, _, _)
TokenizeLoop(text, acc, buf) ==
    IF text = <<>>
    THEN (IF buf # <<>> THEN Append(acc, buf) ELSE acc)
    ELSE LET ch == Head(text)
             flushed == IF buf # <<>> THEN Append(acc, buf) ELSE acc
         IN IF IsAsciiAlnum(ch)
            THEN TokenizeLoop(Tail(text), acc, Append(buf, ToLowerChar(ch)))
            ELSE IF IsWhitespace(ch) \/ is_common_punctuation(ch)
            THEN TokenizeLoop(Tail(text), flushed, <<>>)
            ELSE IF IsAlphanumeric(ch)
            THEN TokenizeLoop(Tail(text), Append(flushed, <<ToLowerChar(ch)>>), <<>>)
            ELSE TokenizeLoop(Tail(text), Append(flushed, <<ch>>), <<>>)

tokenize_for_fts(text) ==
    TokenizeLoop(normalize_nfkc_lower_strip_marks(text), <<>>, <<>>)

build_tokenized_content(text) == Join(tokenize_for_fts(text), <<" ">>)

W_or == <<"o", "r">>

\* a finished word outside quotes: `or` sets prev_was_or, anything else
\* becomes a term unless nothing is left after the leading dashes
FlushWord(st, t) ==
    IF t = W_or THEN [st EXCEPT !.buf = <<>>, !.prev_was_or = TRUE]
    ELSE LET is_not == StartsWith(t, <<"-">>)
             content == IF is_not THEN TrimStartChar(t, "-") ELSE t
         IN IF content # <<>>
            THEN [st EXCEPT !.buf = <<>>,
                            !.terms = Append(@, [raw |-> content, is_not |-> is_not,
                                                 is_or |-> st.prev_was_or]),
                            !.prev_was_or = FALSE]
            ELSE [st EXCEPT !.buf = <<>>]

\* one iteration of the character loop of build_fts_query_advanced
TermStep(st, ch) ==
    IF ch = "\""
    THEN IF st.in_quotes
         THEN IF st.buf # <<>>
              THEN [st EXCEPT !.in_quotes = FALSE, !.buf = <<>>,
                              !.terms = Append(@, [raw |-> st.buf, is_not |-> FALSE,
                                                   is_or |-> st.prev_was_or]),
                              !.prev_was_or = FALSE]
              ELSE [st EXCEPT !.in_quotes = FALSE]
         ELSE IF Trim(st.buf) # <<>>
              THEN [FlushWord(st, st.buf) EXCEPT !.in_quotes = TRUE]
              ELSE [st EXCEPT !.in_quotes = TRUE]
    ELSE IF IsWhitespace(ch) /\ ~ st.in_quotes
    THEN (IF st.buf # <<>> THEN FlushWord(st, st.buf) ELSE st)
    ELSE [st EXCEPT !.buf = Append(@, ch)]

RECURSIVE TermLoop(_, _)
TermLoop(st, q) == IF q = <<>> THEN st ELSE TermLoop(TermStep(st, Head(q)), Tail(q))

\* the `terms` vector of build_fts_query_advanced: (term, is_not, is_or_before)
QueryTerms(raw_query) ==
    LET q == normalize_nfkc_lower_strip_marks(Trim(raw_query))
        st == TermLoop([terms |-> <<>>, buf |-> <<>>, in_quotes |-> FALSE,
                        prev_was_or |-> FALSE], q)
        tail == IF st.buf = <<>> \/ st.buf = W_or THEN st
                ELSE LET is_not == StartsWith(st.buf, <<"-">>)
                         content == IF is_not THEN TrimStartChar(st.buf, "-") ELSE st.buf
                     IN IF content # <<>>
                        THEN [st EXCEPT !.terms =
                                Append(@, [raw |-> content, is_not |-> is_not,
                                           is_or |-> st.prev_was_or])]
                        ELSE st
    IN IF q = <<>> THEN <<>> ELSE tail.terms

RECURSIVE RemoveWhitespace(_)
RemoveWhitespace(s) ==
    IF s = <<>> THEN <<>>
    ELSE (IF IsWhitespace(Head(s)) THEN <<>> ELSE <<Head(s)>>) \o RemoveWhitespace(Tail(s))

RECURSIVE Singletons(_)
Singletons(s) == IF s = <<>> THEN <<>> ELSE << <<Head(s)>> >> \o Singletons(Tail(s))

\* the class of a term: "phrase" (all CJK), "prefix" (all ASCII
\* alphanumeric) or "quoted"
TermClass(s) ==
    LET has_cjk == \E i \in 1..Len(s) : is_cjk(s[i])
        all_cjk == \A i \in 1..Len(s) : is_cjk(s[i]) \/ IsWhitespace(s[i])
    IN IF has_cjk /\ all_cjk THEN "phrase"
       ELSE IF \A i \in 1..Len(s) : IsAsciiAlnum(s[i]) THEN "prefix"
       ELSE "quoted"

to_phrase_if_cjk(s) ==
    CASE TermClass(s) = "phrase" ->
            <<"\"">> \o Join(Singletons(RemoveWhitespace(s)), <<" ">>) \o <<"\"">>
      [] TermClass(s) = "prefix" -> s \o <<"*">>
      [] OTHER -> <<"\"">> \o Replace(s, <<"\"">>, <<>>) \o <<"\"">>

W_NOT == <<"N", "O", "T", " ">>
W_AND == <<"A", "N", "D">>
W_OR == <<"O", "R">>

\* the `parts` vector: connective and piece of every term, in input order
RECURSIVE QueryParts(_, _)
QueryParts(terms, i) ==
    IF i > Len(terms) THEN <<>>
    ELSE LET t == terms[i]
             piece == (IF t.is_not THEN W_NOT ELSE <<>>) \o to_phrase_if_cjk(t.raw)
             conn == IF i > 1 THEN (IF t.is_or THEN <<W_OR>> ELSE <<W_AND>>) ELSE <<>>
         IN conn \o <<piece>> \o QueryParts(terms, i + 1)

build_fts_query_advanced(raw_query) ==
    LET parts == QueryParts(QueryTerms(raw_query), 1)
    IN IF parts = <<>> THEN None ELSE Some(Join(parts, <<" ">>))

\* the number of characters of s that end at byte offset b, or -1 when b is
\* past the end or inside a character (str::get returns None)
CharsBeforeByte(s, b) ==
    LET ks == { k \in 0..Len(s) : ByteLen(SubSeq(s, 1, k)) = b }
    IN IF ks = {} THEN -1 ELSE CHOOSE k \in ks : TRUE

Ellipsis == <<".", ".", ".">>

\* the context window on each side of a match, in characters
ContextWindow == 50

Max(a, b) == IF a >= b THEN a ELSE b
Min(a, b) == IF a <= b THEN a ELSE b

\* byte_start is 0-based, as str::find returns it
build_context_snippet(content, byte_start, pattern_bytes) ==
    LET start_char_index == CharsBeforeByte(content, byte_start)
        byte_end == Min(byte_start + pattern_bytes, ByteLen(content))
        end_char_index == CharsBeforeByte(content, byte_end)
        matched_char_len == IF end_char_index = -1 THEN 0
                            ELSE end_char_index - start_char_index
        snippet_start == Max(start_char_index - ContextWindow, 0)
        snippet_end == Min(start_char_index + matched_char_len + ContextWindow,
                           Len(content))
        snippet == SubSeq(content, snippet_start + 1, snippet_end)
    IN IF start_char_index = -1 THEN <<>>
       ELSE IF content = <<>> \/ snippet = <<>> THEN <<>>
       ELSE Ellipsis \o Trim(snippet) \o Ellipsis

\* str::find as a 0-based byte offset into haystack, -1 when none
FindByte(haystack, needle) ==
    IF Find(haystack, needle) = 0 THEN -1
    ELSE ByteLen(SubSeq(haystack, 1, Find(haystack, needle) - 1))

RECURSIVE NonEmptyPieces(_)
NonEmptyPieces(ps) ==
    IF ps = <<>> THEN <<>>
    ELSE (IF Head(ps) = <<>> THEN <<>> ELSE <<Head(ps)>>) \o NonEmptyPieces(Tail(ps))

\* str::split_whitespace
SplitWhitespace(s) == NonEmptyPieces(SplitOn(s, {" ", "\t", "\n", "\r", "IDSP", "NBSP"}))

extract_context(content, query) ==
    LET content_lower == normalize_nfkc_lower_strip_marks(content)
        tokens == SplitWhitespace(query)
        hits == { i \in DOMAIN tokens : FindByte(content_lower, tokens[i]) # -1 }
    IN IF content = <<>> \/ query = <<>> THEN <<>>
       ELSE IF FindByte(content_lower, query) # -1
       THEN build_context_snippet(content, FindByte(content_lower, query),
                                  ByteLen(query))
       ELSE IF hits # {}
       THEN build_context_snippet(content,
                                  FindByte(content_lower, tokens[MinOf(hits)]),
                                  ByteLen(tokens[MinOf(hits)]))
       ELSE <<>>

(***************************************************************************)
(* The data directory.  A corpus gives every story id a kind (or none):    *)
(* the kind fixes the entry's story_name and the content of the script     *)
(* file story_txt points to.  Entry types, categories and story codes are  *)
(* left out: no operation below branches on them.                          *)
(*   N  name "a",  script "b"                                              *)
(*   S  name "b",  script "ba"                                             *)
(*   D  name "b",  script "-a"                                             *)
(*   U  name "b",  script file missing                                     *)
(*   P  name ".",  script "."                                              *)
(*   B  name "b",  story_txt blank                                         *)
(*   F  no entry in the review table, script "b"                           *)
(* The entries of the roguelike, record and rune tables are the `extra`    *)
(* entries of the directory: a story id each, with story_txt blank or the  *)
(* path of that story's script, and the name "a".  The path of a story's   *)
(* script is the story's id; the blank path is 0.                          *)
(***************************************************************************)
StoryKinds == {"N", "S", "D", "U"}

\* the releases of the game data that sync_data can download and a ZIP
\* import can bring: release r holds every story, the kinds rotating
KindCycle == <<"N", "S", "D", "U">>

Release(r) == [i \in StoryIds |-> KindCycle[((i + r - 2) % Len(KindCycle)) + 1]]

Corpora == { Release(r) : r \in 1..NumReleases }

EmptyCorpus == [i \in StoryIds |-> "absent"]

KindName(k) ==
    CASE k = "N" -> <<"a">>
      [] k = "P" -> <<".">>
      [] OTHER -> <<"b">>

KindScript(k) ==
    CASE k = "N" -> Some(<<"b">>)
      [] k = "S" -> Some(<<"b", "a">>)
      [] k = "D" -> Some(<<"-", "a">>)
      [] k = "P" -> Some(<<".">>)
      [] k \in {"B", "F"} -> Some(<<"b">>)
      [] OTHER -> None

\* Result<T, String>
Ok(v) == [ok |-> TRUE, val |-> v]
Err(e) == [ok |-> FALSE, err |-> e]

NotInstalled == Err("NOT_INSTALLED")

\* data_dir as left by nothing at all
NoData == [installed |-> FALSE, table_ok |-> FALSE, stories |-> EmptyCorpus,
           extra |-> <<>>]

\* data_dir after a complete extraction of corpus c
Installed(c) == [installed |-> TRUE, table_ok |-> TRUE, stories |-> c,
                 extra |-> <<>>]

is_installed(dd) == dd.installed

\* the StoryEntry records of story_review_table.json, as the loop over
\* infoUnlockDatas meets them
RECURSIVE ReviewEntries(_, _)
ReviewEntries(dd, i) ==
    IF i > NumStories THEN <<>>
    ELSE (IF dd.stories[i] \in {"absent", "F"} THEN <<>>
          ELSE <<[story_id |-> i, story_name |-> KindName(dd.stories[i]),
                  story_txt |-> IF dd.stories[i] = "B" THEN 0 ELSE i]>>)
         \o ReviewEntries(dd, i + 1)

\* the StoryEntry records extend_index_with_additional_sources goes through
ExtraEntries(dd) ==
    [i \in DOMAIN dd.extra |->
        [story_id |-> dd.extra[i].story_id, story_name |-> <<"a">>,
         story_txt |-> IF dd.extra[i].blank THEN 0 ELSE dd.extra[i].story_id]]

\* the loop with seen_ids as it would be without the test of story_txt and
\* of seen_ids: every entry is pushed
KeepEveryEntry(entries, seen_ids) == entries

\* the loops with seen_ids: an entry with a blank story_txt is skipped, the
\* first of the other entries of every story_id is kept
RECURSIVE DedupById(_, _)
DedupById(entries, seen_ids) ==
    IF entries = <<>> THEN <<>>
    ELSE IF Head(entries).story_txt = 0 \/ Head(entries).story_id \in seen_ids
         THEN DedupById(Tail(entries), seen_ids)
         ELSE <<Head(entries)>>
              \o DedupById(Tail(entries), seen_ids \cup {Head(entries).story_id})

\* stories.sort_by(story_id): insertion into a sorted sequence
RECURSIVE SortById(_)
SortById(entries) ==
    IF entries = <<>> THEN <<>>
    ELSE LET rest == SortById(Tail(entries))
             e == Head(entries)
             before == SelectSeq(rest, LAMBDA x : x.story_id <= e.story_id)
             after == SelectSeq(rest, LAMBDA x : x.story_id > e.story_id)
         IN before \o <<e>> \o after

collect_stories_for_index(dd) ==
    IF ~ is_installed(dd) THEN NotInstalled
    ELSE IF ~ dd.table_ok THEN Err("Failed to parse story review data")
    ELSE Ok(SortById(DedupById(ReviewEntries(dd, 1) \o ExtraEntries(dd), {})))

read_story_text(dd, story_path) ==
    IF story_path \in StoryIds
       /\ dd.stories[story_path] # "absent"
       /\ KindScript(dd.stories[story_path]).some
    THEN Ok(KindScript(dd.stories[story_path]).val)
    ELSE Err("Failed to read story file")

\* get_main_stories_grouped and the other grouped listings: the guard, the
\* read of the review table, then the entries of the table
get_stories_grouped(dd) ==
    IF ~ is_installed(dd) THEN NotInstalled
    ELSE IF ~ dd.table_ok THEN Err("Failed to parse story review data")
    ELSE Ok(ReviewEntries(dd, 1))

(***************************************************************************)
(* The index database story_index.db: the FTS table story_index and the    *)
(* key/value table story_index_meta.                                       *)
(***************************************************************************)
\* no file at index_db_path
NoIndex == [exists |-> FALSE, index_version |-> 0, rows |-> <<>>,
            last_built_at |-> None, total_count |-> None]

\* a file without tables, as Connection::open creates it
EmptyDbFile == [NoIndex EXCEPT !.exists = TRUE]

\* Connection::open creates the file
open_index_connection(db) == IF db.exists THEN db ELSE EmptyDbFile

\* init_index_tables setting the version without the DROP TABLE
InitTablesKeepRows(db) ==
    IF db.index_version < INDEX_VERSION
    THEN [db EXCEPT !.index_version = INDEX_VERSION]
    ELSE db

init_index_tables(db) ==
    LET current_version == db.index_version
        should_recreate == current_version < INDEX_VERSION
    IN IF should_recreate
       THEN [db EXCEPT !.rows = <<>>, !.index_version = INDEX_VERSION]
       ELSE db

\* fs::remove_file succeeds (ok) or fails and leaves the file
clear_story_index(db, ok) == IF db.exists /\ ok THEN NoIndex ELSE db

\* the text stored in raw_content: the name, then the flattened script
CombinedRaw(story_name, flattened) ==
    IF Trim(flattened) = <<>> THEN story_name
    ELSE story_name \o <<"\n">> \o flattened

\* the row written whatever its tokenized content is
TokenizedRowAlways(indexed, combined_raw, tokenized) ==
    Some([story_id |-> indexed.story_id,
          story_name |-> indexed.story_name,
          tokenized_content |-> tokenized,
          raw_content |-> combined_raw])

\* a story whose tokenized content is blank is skipped
TokenizedRow(indexed, combined_raw, tokenized) ==
    IF Trim(tokenized) = <<>> THEN None
    ELSE Some([story_id |-> indexed.story_id,
               story_name |-> indexed.story_name,
               tokenized_content |-> tokenized,
               raw_content |-> combined_raw])

CombinedRow(indexed, combined_raw) ==
    TokenizedRow(indexed, combined_raw, build_tokenized_content(combined_raw))

\* the row as it would be if a story whose script cannot be read were
\* indexed by its name (C13 is tested against it)
RawTextRowNameOnly(indexed, raw_text) ==
    IF ~ raw_text.ok THEN CombinedRow(indexed, indexed.story_name)
    ELSE CombinedRow(indexed,
                     CombinedRaw(indexed.story_name,
                                 flatten_segments(parse_story_text(raw_text.val))))

\* a story whose script cannot be read is skipped
RawTextRow(indexed, raw_text) ==
    IF ~ raw_text.ok THEN None
    ELSE CombinedRow(indexed,
                     CombinedRaw(indexed.story_name,
                                 flatten_segments(parse_story_text(raw_text.val))))

\* the row rebuild_story_index inserts for one story, or None when the
\* story is skipped
IndexRow(dd, indexed) == RawTextRow(indexed, read_story_text(dd, indexed.story_txt))

\* the insert loop of rebuild_story_index
RECURSIVE IndexRows(_, _)
IndexRows(dd, indexed_stories) ==
    IF indexed_stories = <<>> THEN <<>>
    ELSE OptSeq(IndexRow(dd, Head(indexed_stories)))
         \o IndexRows(dd, Tail(indexed_stories))

(***************************************************************************)
(* The full-text engine behind `story_index MATCH ?1 ORDER BY bm25(..)`    *)
(* (SQLite FTS5, tokenizer unicode61): which rows an expression matches,   *)
(* which expressions it rejects.  The rank order bm25 gives the matching   *)
(* rows and the failures of the database are inputs of the operations.     *)
(***************************************************************************)
\* the tokens unicode61 cuts a column into: runs of letters and digits
RECURSIVE Unicode61Loop(_, _, _)
Unicode61Loop(text, acc, buf) ==
    IF text = <<>>
    THEN (IF buf # <<>> THEN Append(acc, buf) ELSE acc)
    ELSE IF IsAlphanumeric(Head(text))
         THEN Unicode61Loop(Tail(text), acc, Append(buf, ToLowerChar(Head(text))))
         ELSE Unicode61Loop(Tail(text), IF buf # <<>> THEN Append(acc, buf) ELSE acc, <<>>)

Unicode61Tokens(text) == Unicode61Loop(text, <<>>, <<>>)

\* the indexed columns of a row, tokenized
RowColumns(row) == << Unicode61Tokens(row.story_name),
                      Unicode61Tokens(row.tokenized_content) >>

\* a prefix term matches a token that starts with it, a phrase a run of
\* tokens of one column
TermMatchesColumns(term, cols, phrase) ==
    IF TermClass(term.raw) = "prefix"
    THEN \E c \in DOMAIN cols : \E i \in DOMAIN cols[c] :
             StartsWith(cols[c][i], term.raw)
    ELSE /\ phrase # <<>>
         /\ \E c \in DOMAIN cols : Find(cols[c], phrase) # 0

\* one term of the expression against one row
TermMatches(term, row) ==
    TermMatchesColumns(term, RowColumns(row), Unicode61Tokens(term.raw))

\* the expression uses NOT as a prefix operator, which the grammar of the
\* engine does not have: the query fails when it is stepped
FtsRejects(terms) == \E i \in DOMAIN terms : terms[i].is_not

\* AND binds tighter than OR: the row matches when every term of one of the
\* groups between two ORs matches
FtsMatches(terms, row) ==
    \E i \in DOMAIN terms :
        /\ i = 1 \/ terms[i].is_or
        /\ \A j \in i..Len(terms) :
              (\A k \in (i + 1)..j : ~ terms[k].is_or) => TermMatches(terms[j], row)

\* what the database does to one call: nothing, or a failure of the open,
\* of a statement of init_index_tables, of the prepare of the query, or of
\* the rows while they are stepped
DbFaults == {"none", "open", "init", "prepare", "step"}

\* the order bm25 gives the matching rows: by insertion or the reverse
RankOrders == {"asc", "desc"}

\* the rank order only matters to a query that runs
Envs == { e \in [fault : DbFaults, order : RankOrders] :
             e.fault # "none" => e.order = "asc" }

Reverse(s) == [i \in 1..Len(s) |-> s[Len(s) + 1 - i]]

Take(s, n) == SubSeq(s, 1, Min(n, Len(s)))

Ranked(hits, env) ==
    Take(IF env.order = "asc" THEN hits ELSE Reverse(hits), SEARCH_RESULT_LIMIT)

\* the rows the query yields, ranked and limited
QueryRows(db, terms, env) ==
    Ranked(SelectSeq(db.rows, LAMBDA row : FtsMatches(terms, row)), env)

\* snippet(story_index, -1, ..): the text of the matching column
Snip(terms, row) ==
    IF \E i \in DOMAIN terms :
          TermMatches(terms[i], [row EXCEPT !.tokenized_content = <<>>])
    THEN row.story_name ELSE row.tokenized_content

PreviewChars == 120

\* the snippet with its line breaks and double spaces replaced
CleanSnippet(snip) ==
    Replace(Replace(Replace(snip, <<"\n">>, <<" ">>), <<"\r">>, <<" ">>),
            <<" ", " ">>, <<" ">>)

\* the context of the query in the raw content, or else the snippet
ContextOrSnippet(ctx, snip) ==
    IF Trim(ctx) = <<>> /\ Trim(snip) # <<>> THEN CleanSnippet(snip) ELSE ctx

\* the first PreviewChars characters, with an ellipsis when that cuts
Preview(raw_content, preview) ==
    IF ByteLen(preview) < ByteLen(raw_content) THEN preview \o Ellipsis ELSE preview

MatchedOrPreview(row, matched_text) ==
    [story_id |-> row.story_id, story_name |-> row.story_name,
     matched_text |-> IF matched_text # <<>> THEN matched_text
                      ELSE Preview(row.raw_content,
                                   Take(row.raw_content, PreviewChars))]

\* the SearchResult of one row of the index query
IndexResult(terms, row, query) ==
    MatchedOrPreview(row,
        ContextOrSnippet(extract_context(row.raw_content, MapLower(query)),
                         Snip(terms, row)))

RECURSIVE IndexResults(_, _, _)
IndexResults(terms, rows, query) ==
    IF rows = <<>> THEN <<>>
    ELSE <<IndexResult(terms, Head(rows), query)>>
         \o IndexResults(terms, Tail(rows), query)

\* try_open_index_connection: no connection when the file is missing or
\* cannot be opened
try_open_index_connection(db, env) == db.exists /\ env.fault # "open"

\* the database after an init_index_tables that recreates the table
\* whatever version is stored
DbAfterInitRecreated(db, env) ==
    IF try_open_index_connection(db, env) /\ env.fault # "init"
    THEN [db EXCEPT !.rows = <<>>, !.index_version = INDEX_VERSION] ELSE db

\* the database after search_stories_with_index or get_story_index_status
\* ran init_index_tables on it
DbAfterInit(db, env) ==
    IF try_open_index_connection(db, env) /\ env.fault # "init"
    THEN init_index_tables(db) ELSE db

\* the rows of the statement, stepped and mapped to results
SteppedRows(db, query, env, terms) ==
    IF env.fault = "step" \/ FtsRejects(terms) THEN Ok(Some(<<>>))
    ELSE Ok(Some(IndexResults(terms, QueryRows(db, terms, env), query)))

\* the query as it would be if a query that compiles to none were left to
\* the scan (C8 is tested against it)
QueryIndexNoneToScan(db, query, env) ==
    IF Len(db.rows) = 0 THEN Ok(None)
    ELSE IF ~ build_fts_query_advanced(query).some THEN Ok(None)
    ELSE IF env.fault = "prepare" THEN Err("Failed to prepare story index query")
    ELSE SteppedRows(db, query, env, QueryTerms(query))

\* the query against the tables init_index_tables left
QueryIndex(db, query, env) ==
    IF Len(db.rows) = 0 THEN Ok(None)
    ELSE IF ~ build_fts_query_advanced(query).some THEN Ok(Some(<<>>))
    ELSE IF env.fault = "prepare" THEN Err("Failed to prepare story index query")
    ELSE SteppedRows(db, query, env, QueryTerms(query))

\* Result<Option<Vec<SearchResult>>, String>
search_stories_with_index(db, query, env) ==
    IF ~ try_open_index_connection(db, env) THEN Ok(None)
    ELSE IF env.fault = "init" THEN Err("Failed to init story index meta")
    ELSE QueryIndex(init_index_tables(db), query, env)

NameResult(story) ==
    [story_id |-> story.story_id, story_name |-> story.story_name,
     matched_text |-> story.story_name]

\* the script of a story against the query: a hit carries the context
ContentResult(story, content, query_norm) ==
    IF content.ok /\ Contains(normalize_nfkc_lower_strip_marks(content.val), query_norm)
    THEN Some([story_id |-> story.story_id, story_name |-> story.story_name,
               matched_text |-> extract_context(content.val, query_norm)])
    ELSE None

\* one story of the scan: its name is tried first, then its script
ScanStory(dd, story, query_norm) ==
    IF Contains(normalize_nfkc_lower_strip_marks(story.story_name), query_norm)
    THEN Some(NameResult(story))
    ELSE ContentResult(story, read_story_text(dd, story.story_txt), query_norm)

\* the loop of search_stories_fallback from story i on, results found so
\* far; the loop breaks when a push fills the results
RECURSIVE FallbackLoop(_, _, _, _, _)
FallbackLoop(dd, stories, i, query_norm, results) ==
    IF i > Len(stories) \/ Len(results) >= SEARCH_RESULT_LIMIT THEN results
    ELSE FallbackLoop(dd, stories, i + 1, query_norm,
                      results \o OptSeq(ScanStory(dd, stories[i], query_norm)))

ScanStories(dd, stories, query_norm) ==
    IF ~ stories.ok THEN stories
    ELSE Ok(FallbackLoop(dd, stories.val, 1, query_norm, <<>>))

search_stories_fallback(dd, query) ==
    ScanStories(dd, collect_stories_for_index(dd),
                normalize_nfkc_lower_strip_marks(query))

(***************************************************************************)
(* The three search entry points.  Each gives the result returned to the   *)
(* caller; the database they leave behind is DbAfterInit.                  *)
(***************************************************************************)
RECURSIVE StoryIdsOf(_)
StoryIdsOf(results) ==
    IF results = <<>> THEN {} ELSE {Head(results).story_id} \cup StoryIdsOf(Tail(results))

\* Ok(Some(results)) => results, Ok(None) and Err(_) => empty
IndexResultsOrEmpty(indexed) ==
    IF indexed.ok /\ indexed.val.some THEN indexed.val.val ELSE <<>>

\* the loop as it would be without the `seen` set: every fallback result is
\* appended (C2 is tested against it)
RECURSIVE CombineLoopUnseen(_, _, _)
CombineLoopUnseen(combined, seen, fallback_results) ==
    IF fallback_results = <<>> THEN combined
    ELSE IF Len(combined) + 1 >= SEARCH_RESULT_LIMIT
         THEN Append(combined, Head(fallback_results))
         ELSE CombineLoopUnseen(Append(combined, Head(fallback_results)), seen,
                                Tail(fallback_results))

\* `for r in fallback_results` of search_stories
RECURSIVE CombineLoop(_, _, _)
CombineLoop(combined, seen, fallback_results) ==
    IF fallback_results = <<>> THEN combined
    ELSE LET r == Head(fallback_results)
         IN IF r.story_id \notin seen
            THEN (IF Len(combined) + 1 >= SEARCH_RESULT_LIMIT
                  THEN Append(combined, r)
                  ELSE CombineLoop(Append(combined, r), seen \cup {r.story_id},
                                   Tail(fallback_results)))
            ELSE CombineLoop(combined, seen, Tail(fallback_results))

\* the merge as it would be if the fallback scan were left out (C11 is
\* tested against it)
CombineIndexOnly(combined, fallback_results) == Ok(combined)

\* the index results, then the fallback results whose story is new
Combine(combined, fallback_results) ==
    IF ~ fallback_results.ok THEN fallback_results
    ELSE Ok(CombineLoop(combined, StoryIdsOf(combined), fallback_results.val))

SearchTrimmed(dd, db, trimmed, env) ==
    IF trimmed = <<>> THEN Ok(<<>>)
    ELSE Combine(IndexResultsOrEmpty(search_stories_with_index(db, trimmed, env)),
                 search_stories_fallback(dd, trimmed))

search_stories(dd, db, query, env) == SearchTrimmed(dd, db, Trim(query), env)

\* the two merge loops of search_stories_with_debug: [merged, seen, added]
RECURSIVE MergeLoop(_, _)
MergeLoop(st, rs) ==
    IF rs = <<>> THEN st
    ELSE LET r == Head(rs)
         IN IF r.story_id \notin st.seen
            THEN LET st1 == [merged |-> Append(st.merged, r),
                             seen |-> st.seen \cup {r.story_id},
                             added |-> st.added + 1]
                 IN IF Len(st1.merged) >= SEARCH_RESULT_LIMIT THEN st1
                    ELSE MergeLoop(st1, Tail(rs))
            ELSE MergeLoop(st, Tail(rs))

NoMerge == [merged |-> <<>>, seen |-> {}, added |-> 0]

\* the log lines up to the end of the scan
DebugLogs(trimmed, indexed, fallback_results) ==
    <<"start", "normalized",
      IF build_fts_query_advanced(trimmed).some THEN "fts query" ELSE "fts query empty",
      IF ~ indexed.ok THEN "index failed"
      ELSE IF indexed.val.some THEN "index done"
      ELSE "index unavailable",
      "scan done">>
    \o (IF Len(fallback_results) >= SEARCH_RESULT_LIMIT
        THEN <<"limit reached">> ELSE <<>>)

\* the fallback results are merged while the index results leave room
MergeFallback(m, fallback_results) ==
    IF Len(m.merged) < SEARCH_RESULT_LIMIT
    THEN MergeLoop([m EXCEPT !.added = 0], fallback_results)
    ELSE [m EXCEPT !.added = 0]

DebugResponse(logs, m) ==
    Ok([results |-> m.merged,
        logs |-> logs \o (IF m.added > 0 THEN <<"scan added">> ELSE <<>>)
                      \o <<"total">>])

DebugMerge(trimmed, indexed, fallback_results) ==
    IF ~ fallback_results.ok THEN fallback_results
    ELSE DebugResponse(DebugLogs(trimmed, indexed, fallback_results.val),
                       MergeFallback(MergeLoop(NoMerge, IndexResultsOrEmpty(indexed)),
                                     fallback_results.val))

DebugTrimmed(dd, db, trimmed, env) ==
    IF trimmed = <<>>
    THEN Ok([results |-> <<>>, logs |-> <<"empty query">>])
    ELSE DebugMerge(trimmed, search_stories_with_index(db, trimmed, env),
                    search_stories_fallback(dd, trimmed))

\* SearchDebugResponse { results, logs }: a log line is modelled by its kind
search_stories_with_debug(dd, db, query, env) ==
    DebugTrimmed(dd, db, Trim(query), env)

\* one search-progress notification
Progress(phase, current, total) ==
    [phase |-> phase, current |-> current, total |-> total]

\* the scan loop of search_stories_with_progress: [results, emitted]; a
\* notification follows every story, the loop breaks once the results are
\* full
RECURSIVE ProgressLoop(_, _, _, _, _)
ProgressLoop(dd, stories, idx, query_norm, st) ==
    IF idx > Len(stories) \/ Len(st.results) >= SEARCH_RESULT_LIMIT THEN st
    ELSE ProgressLoop(dd, stories, idx + 1, query_norm,
             [results |-> st.results \o OptSeq(ScanStory(dd, stories[idx], query_norm)),
              emitted |-> Append(st.emitted,
                                 Progress("scan", Min(idx, Len(stories)),
                                          Max(Len(stories), 1)))])

ScanResponse(scan) == [result |-> Ok(scan.results), emitted |-> scan.emitted]

\* the linear scan with its notifications, the first one before the loop
ProgressScan(dd, stories, query_norm) ==
    IF ~ stories.ok THEN [result |-> stories, emitted |-> <<>>]
    ELSE ScanResponse(ProgressLoop(dd, stories.val, 1, query_norm,
                          [results |-> <<>>,
                           emitted |-> <<Progress("scan", 0,
                                                  Max(Len(stories.val), 1))>>]))

\* the index answer as it would be without its notification (C10 is tested
\* against it)
ProgressIndexedSilent(dd, trimmed, indexed) ==
    IF indexed.ok /\ indexed.val.some
    THEN [result |-> Ok(indexed.val.val), emitted |-> <<>>]
    ELSE ProgressScan(dd, collect_stories_for_index(dd),
                      normalize_nfkc_lower_strip_marks(trimmed))

ProgressIndexed(dd, trimmed, indexed) ==
    IF indexed.ok /\ indexed.val.some
    THEN [result |-> Ok(indexed.val.val), emitted |-> <<Progress("index", 1, 1)>>]
    ELSE ProgressScan(dd, collect_stories_for_index(dd),
                      normalize_nfkc_lower_strip_marks(trimmed))

ProgressTrimmed(dd, db, trimmed, env) ==
    IF trimmed = <<>>
    THEN [result |-> Ok(<<>>), emitted |-> <<Progress("done", 1, 1)>>]
    ELSE ProgressIndexed(dd, trimmed, search_stories_with_index(db, trimmed, env))

\* [result, emitted]: the returned value and the notifications sent
search_stories_with_progress(dd, db, query, env) ==
    ProgressTrimmed(dd, db, Trim(query), env)

StatusOf(db) ==
    Ok([ready |-> Len(db.rows) > 0, total |-> Len(db.rows),
        last_built_at |-> db.last_built_at])

\* StoryIndexStatus
get_story_index_status(db, env) ==
    IF ~ try_open_index_connection(db, env)
    THEN Ok([ready |-> FALSE, total |-> 0, last_built_at |-> None])
    ELSE IF env.fault = "init" THEN Err("Failed to init story index meta")
    ELSE StatusOf(init_index_tables(db))

ParsedContent(content) ==
    IF ~ content.ok THEN content ELSE Ok(parse_story_text(content.val))

\* get_story_content: read_story_text, then the parse
get_story_content(dd, story_path) == ParsedContent(read_story_text(dd, story_path))

(***************************************************************************)
(* Index rebuild.                                                          *)
(***************************************************************************)
\* where the database fails a rebuild: nowhere, at Connection::open, in
\* init_index_tables, at conn.transaction(), at the prepare of the insert,
\* at an insert, at the commit
RebuildFaults == {"none", "open", "init", "begin", "prepare", "insert", "commit"}

\* SystemTime::now() as seconds, as one symbolic value
Timestamp == "now"

\* the insert loop and the commit without the DELETE FROM story_index
InsertRowsAppended(db1, rows, fault) ==
    IF fault = "insert" /\ rows # <<>>
    THEN [result |-> Err("Failed to insert story into index"), db |-> db1]
    ELSE IF fault = "commit"
    THEN [result |-> Err("Failed to commit story index rebuild"), db |-> db1]
    ELSE [result |-> Ok("unit"),
          db |-> [db1 EXCEPT !.rows = @ \o rows,
                             !.last_built_at = Some(Timestamp),
                             !.total_count = Some(Len(rows))]]

\* the insert loop and the commit, on the tables db1
InsertRows(db1, rows, fault) ==
    IF fault = "insert" /\ rows # <<>>
    THEN [result |-> Err("Failed to insert story into index"), db |-> db1]
    ELSE IF fault = "commit"
    THEN [result |-> Err("Failed to commit story index rebuild"), db |-> db1]
    ELSE [result |-> Ok("unit"),
          db |-> [db1 EXCEPT !.rows = rows,
                             !.last_built_at = Some(Timestamp),
                             !.total_count = Some(Len(rows))]]

\* the transaction: the stories are collected, the insert is prepared
RebuildTransaction(dd, db1, indexed_stories, fault) ==
    IF ~ indexed_stories.ok THEN [result |-> indexed_stories, db |-> db1]
    ELSE IF fault = "prepare"
    THEN [result |-> Err("Failed to prepare story index insert"), db |-> db1]
    ELSE InsertRows(db1, IndexRows(dd, indexed_stories.val), fault)

\* init_index_tables runs on the connection, before the transaction
RebuildTables(dd, db1, fault) ==
    IF fault = "begin"
    THEN [result |-> Err("Failed to start index transaction"), db |-> db1]
    ELSE RebuildTransaction(dd, db1, collect_stories_for_index(dd), fault)

RebuildOpened(dd, db0, fault) ==
    IF fault = "init"
    THEN [result |-> Err("Failed to init story index meta"), db |-> db0]
    ELSE RebuildTables(dd, init_index_tables(db0), fault)

\* the rebuild as it would be without the is_installed guard (C5 is tested
\* against it)
RebuildUnguarded(dd, db, fault) ==
    IF fault = "open"
    THEN [result |-> Err("Failed to open story index database"), db |-> db]
    ELSE RebuildOpened(dd, open_index_connection(db), fault)

\* [result, db]: the value returned and the database left behind; a
\* transaction that is dropped without commit is rolled back
rebuild_story_index(dd, db, fault) ==
    IF ~ is_installed(dd) THEN [result |-> NotInstalled, db |-> db]
    ELSE IF fault = "open"
    THEN [result |-> Err("Failed to open story index database"), db |-> db]
    ELSE RebuildOpened(dd, open_index_connection(db), fault)

(***************************************************************************)
(* Content installation: sync_data and the ZIP imports.                    *)
(***************************************************************************)
\* how far extract_zip_at gets: "early" fails before data_dir is touched,
\* "removed" after remove_dir_all(data_dir), "truncated" and "partial" in
\* copy_dir_all (the review table cut short; the table copied, the scripts
\* not yet), "ok" completes
ExtractOutcomes == {"ok", "early", "removed", "truncated", "partial"}

ScriptsMissing(c) == [i \in StoryIds |-> IF c[i] = "absent" THEN "absent" ELSE "U"]

\* [result, dd]
extract_zip_at(dd, c, outcome) ==
    CASE outcome = "early" -> [result |-> Err("Failed to read zip archive"), dd |-> dd]
      [] outcome = "removed" -> [result |-> Err("Failed to copy"), dd |-> NoData]
      [] outcome = "truncated" ->
            [result |-> Err("Failed to copy"),
             dd |-> [installed |-> TRUE, table_ok |-> FALSE, stories |-> EmptyCorpus,
                     extra |-> <<>>]]
      [] outcome = "partial" ->
            [result |-> Err("Failed to copy"), dd |-> Installed(ScriptsMissing(c))]
      [] OTHER -> [result |-> Ok("unit"), dd |-> Installed(c)]

\* what follows the extraction in sync_data and in finalize_manual_import:
\* clear_story_index, whose error is only logged, then write_version
AfterExtract(db, extracted, clear_ok, version_ok) ==
    IF ~ extracted.result.ok
    THEN [result |-> extracted.result, dd |-> extracted.dd, db |-> db]
    ELSE [result |-> IF version_ok THEN Ok("unit")
                     ELSE Err("Failed to write version file"),
          dd |-> extracted.dd,
          db |-> clear_story_index(db, clear_ok)]

\* [result, dd, db]
sync_data(dd, db, c, outcome, clear_ok, version_ok) ==
    AfterExtract(db, extract_zip_at(dd, c, outcome), clear_ok, version_ok)

finalize_manual_import(dd, db, c, outcome, clear_ok, version_ok) ==
    AfterExtract(db, extract_zip_at(dd, c, outcome), clear_ok, version_ok)

(***************************************************************************)
(* The service as a state machine: one action per command, each command    *)
(* run from its first line to its return.                                  *)
(*   dataDir  the content under data_dir                                   *)
(*   indexDb  the database at index_db_path                                *)
(*   last     the last command: its name, inputs and returned value, and   *)
(*            the index database it started from                           *)
(*   events   the search-progress notifications the last command emitted   *)
(*   tasks, mutex  the command tasks and the service lock (TaskSpec)       *)
(***************************************************************************)
\* the queries typed into the search box
Queries == { <<" ">>, <<"a">>, <<"b">>, <<"-">>, <<"-", "a">> }

NoEnv == [fault |-> "none", order |-> "asc"]

NoCall == [op |-> "none", query |-> <<>>, env |-> NoEnv, result |-> Ok("unit"),
           pre |-> NoIndex]

Call(op, query, env, result, pre) ==
    [op |-> op, query |-> query, env |-> env, result |-> result, pre |-> pre]

LegacyRows(rows) ==
    [exists |-> TRUE, index_version |-> INDEX_VERSION - 1, rows |-> rows,
     last_built_at |-> Some(Timestamp), total_count |-> Some(Len(rows))]

\* an index built from the installed content by a release whose
\* INDEX_VERSION was one lower
LegacyIndex(dd) == LegacyRows(IndexRows(dd, collect_stories_for_index(dd).val))

\* a command task: the command it runs, where it stands in it, the release
\* it installs (sync_data), the rows it has collected (build_story_index)
\* and what it returned
IdleTask == [cmd |-> "idle", pc |-> "idle", release |-> EmptyCorpus, rows |-> <<>>,
             result |-> "none"]

IdleTasks == [t \in 1..NumTasks |-> IdleTask]

\* Mutex::new(DataService::new(..)): free, not poisoned
FreeMutex == [holder |-> 0, poisoned |-> FALSE]

\* a fresh installation of the application, or one upgraded from the
\* earlier release with its content and its index
Init ==
    /\ \/ dataDir = NoData /\ indexDb = NoIndex
       \/ \E c \in Corpora : dataDir = Installed(c) /\ indexDb = LegacyIndex(Installed(c))
    /\ last = NoCall
    /\ events = <<>>
    /\ tasks = IdleTasks
    /\ mutex = FreeMutex

\* an installation returns: data_dir and the index are as it left them
Installs(op, r) ==
    /\ dataDir' = r.dd
    /\ indexDb' = r.db
    /\ last' = Call(op, <<>>, NoEnv, r.result, NoIndex)
    /\ events' = <<>>
    /\ UNCHANGED <<tasks, mutex>>

SyncData(c, outcome, clear_ok, version_ok) ==
    Installs("sync_data", sync_data(dataDir, indexDb, c, outcome, clear_ok, version_ok))

ImportZip(c, outcome, clear_ok, version_ok) ==
    Installs("import_from_zip",
             finalize_manual_import(dataDir, indexDb, c, outcome, clear_ok, version_ok))

Rebuilds(fault, r) ==
    /\ indexDb' = r.db
    /\ last' = Call("build_story_index", <<>>, [fault |-> fault, order |-> "asc"],
                    r.result, indexDb)
    /\ events' = <<>>
    /\ UNCHANGED <<dataDir, tasks, mutex>>

BuildStoryIndex(fault) == Rebuilds(fault, rebuild_story_index(dataDir, indexDb, fault))

\* the database a search leaves behind: untouched for an empty query
DbAfterSearch(db, query, env) ==
    IF Trim(query) = <<>> THEN db ELSE DbAfterInit(db, env)

SearchStories(query, env) ==
    /\ indexDb' = DbAfterSearch(indexDb, query, env)
    /\ last' = Call("search_stories", query, env,
                    search_stories(dataDir, indexDb, query, env), indexDb)
    /\ events' = <<>>
    /\ UNCHANGED <<dataDir, tasks, mutex>>

SearchStoriesDebug(query, env) ==
    /\ indexDb' = DbAfterSearch(indexDb, query, env)
    /\ last' = Call("search_stories_debug", query, env,
                    search_stories_with_debug(dataDir, indexDb, query, env), indexDb)
    /\ events' = <<>>
    /\ UNCHANGED <<dataDir, tasks, mutex>>

SearchesWithProgress(query, env, r) ==
    /\ indexDb' = DbAfterSearch(indexDb, query, env)
    /\ last' = Call("search_stories_with_progress", query, env, r.result, indexDb)
    /\ events' = r.emitted
    /\ UNCHANGED <<dataDir, tasks, mutex>>

SearchStoriesWithProgress(query, env) ==
    SearchesWithProgress(query, env,
                         search_stories_with_progress(dataDir, indexDb, query, env))

GetStoryIndexStatus(env) ==
    /\ indexDb' = DbAfterInit(indexDb, env)
    /\ last' = Call("get_story_index_status", <<>>, env,
                    get_story_index_status(indexDb, env), indexDb)
    /\ events' = <<>>
    /\ UNCHANGED <<dataDir, tasks, mutex>>

GetStoryContent(story_path) ==
    /\ last' = Call("get_story_content", <<story_path>>, NoEnv,
                    get_story_content(dataDir, story_path), indexDb)
    /\ events' = <<>>
    /\ UNCHANGED <<dataDir, indexDb, tasks, mutex>>

GetStoriesGrouped ==
    /\ last' = Call("get_main_stories_grouped", <<>>, NoEnv,
                    get_stories_grouped(dataDir), indexDb)
    /\ events' = <<>>
    /\ UNCHANGED <<dataDir, indexDb, tasks, mutex>>

Next ==
    \/ \E c \in Corpora, outcome \in ExtractOutcomes, clear_ok, version_ok \in BOOLEAN :
          SyncData(c, outcome, clear_ok, version_ok)
    \/ \E c \in Corpora, outcome \in ExtractOutcomes, clear_ok, version_ok \in BOOLEAN :
          ImportZip(c, outcome, clear_ok, version_ok)
    \/ \E fault \in RebuildFaults : BuildStoryIndex(fault)
    \/ \E query \in Queries, env \in Envs : SearchStories(query, env)
    \/ \E query \in Queries, env \in Envs : SearchStoriesDebug(query, env)
    \/ \E query \in Queries, env \in Envs : SearchStoriesWithProgress(query, env)
    \/ \E env \in Envs : GetStoryIndexStatus(env)
    \/ \E story_path \in StoryIds : GetStoryContent(story_path)
    \/ GetStoriesGrouped

Spec == Init /\ [][Next]_vars

(***************************************************************************)
(* What the last command saw, recomputed from the state it ran in.  A      *)
(* search leaves dataDir alone, so the content it saw is dataDir; the      *)
(* index it started from is last.pre.                                      *)
(***************************************************************************)
SearchOps == {"search_stories", "search_stories_debug", "search_stories_with_progress"}

LastTrimmed == Trim(last.query)

\* the results of the index path of the last search
LastIndexResults ==
    IndexResultsOrEmpty(search_stories_with_index(last.pre, LastTrimmed, last.env))

\* the results of the fallback scan of the last search
LastFallback == search_stories_fallback(dataDir, LastTrimmed)

\* the result list of the last search
LastResults ==
    IF last.op = "search_stories_debug" THEN last.result.val.results
    ELSE last.result.val

IsPrefix(s, t) == Len(s) <= Len(t) /\ SubSeq(t, 1, Len(s)) = s

NotIn(results, ids) == SelectSeq(results, LAMBDA r : r.story_id \notin ids)

(***************************************************************************)
(* C1: the list search_stories returns has at most SEARCH_RESULT_LIMIT     *)
(* entries, and exactly SEARCH_RESULT_LIMIT entries whenever the index     *)
(* results and the fallback-scan results together hold more than           *)
(* SEARCH_RESULT_LIMIT distinct story_ids.                                 *)
(***************************************************************************)
C1_ResultCapped ==
    (last.op = "search_stories" /\ last.result.ok /\ LastTrimmed # <<>>) =>
        /\ Len(LastResults) <= SEARCH_RESULT_LIMIT
        /\ Cardinality(StoryIdsOf(LastIndexResults) \cup StoryIdsOf(LastFallback.val))
              > SEARCH_RESULT_LIMIT
           => Len(LastResults) = SEARCH_RESULT_LIMIT

(***************************************************************************)
(* C2: in the list search_stories returns every story_id occurs at most    *)
(* once; the index results come first, in their rank order; then come the  *)
(* fallback-scan results whose story_id the index did not return, in scan  *)
(* order: all of them unless the list reached the cap.                     *)
(***************************************************************************)
C2_MergeOrder ==
    (last.op = "search_stories" /\ last.result.ok /\ LastTrimmed # <<>>) =>
        LET rest == NotIn(LastFallback.val, StoryIdsOf(LastIndexResults))
            tail == SubSeq(LastResults, Len(LastIndexResults) + 1, Len(LastResults))
        IN /\ \A i, j \in DOMAIN LastResults :
                 i # j => LastResults[i].story_id # LastResults[j].story_id
           /\ IsPrefix(LastIndexResults, LastResults)
           /\ IsPrefix(tail, rest)
           /\ Len(LastResults) < SEARCH_RESULT_LIMIT => tail = rest

\* a search where one story is matched by both paths and the scan adds
\* another one behind the index results
C2_Witness ==
    /\ last.op = "search_stories" /\ last.result.ok
    /\ LastIndexResults # <<>>
    /\ StoryIdsOf(LastIndexResults) \cap StoryIdsOf(LastFallback.val) # {}
    /\ Len(LastResults) > Len(LastIndexResults)

(***************************************************************************)
(* C3: when rebuild_story_index fails before its transaction commits, the  *)
(* index rows afterwards are exactly the rows from before the rebuild,     *)
(* also when the stored index_version is older than INDEX_VERSION.         *)
(***************************************************************************)
C3_FailedRebuildKeepsRows ==
    (last.op = "build_story_index" /\ ~ last.result.ok) =>
        indexDb.rows = last.pre.rows

(***************************************************************************)
(* C5: called while the content is not installed, rebuild_story_index,     *)
(* collect_stories_for_index and the grouped listings return               *)
(* NOT_INSTALLED, and the rebuild leaves the index database untouched.     *)
(***************************************************************************)
C5_NotInstalledGuard ==
    ~ is_installed(dataDir) =>
        /\ collect_stories_for_index(dataDir) = NotInstalled
        /\ get_stories_grouped(dataDir) = NotInstalled
        /\ last.op = "get_main_stories_grouped" => last.result = NotInstalled
        /\ last.op = "build_story_index" =>
              last.result = NotInstalled /\ indexDb = last.pre

\* a rebuild asked for after the content was removed, an index of the
\* earlier content still on disk
C5_Witness ==
    /\ ~ is_installed(dataDir)
    /\ last.op = "build_story_index"
    /\ last.pre.exists /\ last.pre.rows # <<>>
    /\ last.pre.index_version < INDEX_VERSION

(***************************************************************************)
(* C6: while the content is not installed, get_story_content and the three *)
(* searches with a non-empty query fail with NOT_INSTALLED, whether or not *)
(* an index database exists.                                               *)
(***************************************************************************)
C6_ReadsFailFast ==
    ( /\ ~ is_installed(dataDir)
      /\ \/ last.op = "get_story_content"
         \/ last.op \in SearchOps /\ LastTrimmed # <<>> )
    => last.result = NotInstalled

\* the index path cannot answer the last search: the database is missing or
\* does not open, init_index_tables fails, the index is empty, or the query
\* fails at its prepare or while its rows are stepped
LastIndexUnusable ==
    \/ ~ try_open_index_connection(last.pre, last.env)
    \/ last.env.fault = "init"
    \/ DbAfterInit(last.pre, last.env).rows = <<>>
    \/ /\ build_fts_query_advanced(LastTrimmed).some
       /\ \/ last.env.fault \in {"prepare", "step"}
          \/ FtsRejects(QueryTerms(LastTrimmed))

(***************************************************************************)
(* C7: with content installed, when the index is missing, does not open,   *)
(* is empty or its query fails, the three searches return Ok with exactly  *)
(* the results of the fallback scan.                                       *)
(***************************************************************************)
C7_FallbackOnIndexFailure ==
    ( /\ last.op \in SearchOps /\ LastTrimmed # <<>>
      /\ is_installed(dataDir) /\ LastFallback.ok
      /\ LastIndexUnusable )
    => last.result.ok /\ LastResults = LastFallback.val

\* the last search met a non-empty index with a query that compiles to none
LastCompiledNone ==
    /\ last.op \in SearchOps /\ LastTrimmed # <<>>
    /\ try_open_index_connection(last.pre, last.env)
    /\ last.env.fault # "init"
    /\ DbAfterInit(last.pre, last.env).rows # <<>>
    /\ ~ build_fts_query_advanced(LastTrimmed).some

(***************************************************************************)
(* C8 as stated: when a non-empty index exists and the compiler returns    *)
(* none, the search returns an empty list and ends there, no fallback-scan *)
(* result added.                                                           *)
(***************************************************************************)
C8_CompiledNoneIsTerminal ==
    LastCompiledNone => last.result.ok /\ LastResults = <<>>

(***************************************************************************)
(* C8 amended: when a non-empty index exists and the compiler returns      *)
(* none, the index path yields the empty list; search_stories_with_progress*)
(* returns it and ends there, with its one index notification, while       *)
(* search_stories and search_stories_with_debug still run the fallback     *)
(* scan and return exactly its results.                                    *)
(***************************************************************************)
C8_CompiledNoneIndexPath ==
    LastCompiledNone =>
        /\ search_stories_with_index(last.pre, LastTrimmed, last.env) = Ok(Some(<<>>))
        /\ last.op = "search_stories_with_progress" =>
              last.result = Ok(<<>>) /\ events = <<Progress("index", 1, 1)>>
        /\ last.op \in {"search_stories", "search_stories_debug"} =>
              IF LastFallback.ok
              THEN last.result.ok /\ LastResults = LastFallback.val
              ELSE last.result = LastFallback

\* search_stories, a non-empty index, a query that compiles to none, and a
\* result the fallback scan found
C8_Witness ==
    /\ LastCompiledNone
    /\ last.op = "search_stories"
    /\ last.result.ok /\ LastResults # <<>>

(***************************************************************************)
(* C9: search_stories_with_debug returns in `results` exactly the list     *)
(* search_stories returns for the same query, content and index.           *)
(***************************************************************************)
C9_DebugSameResults ==
    (last.op = "search_stories" /\ last.result.ok) =>
        LET debug == search_stories_with_debug(dataDir, last.pre, last.query, last.env)
        IN debug.ok /\ debug.val.results = last.result.val

\* the index path answered the last search
LastIndexAnswered ==
    LET indexed == search_stories_with_index(last.pre, LastTrimmed, last.env)
    IN LastTrimmed # <<>> /\ indexed.ok /\ indexed.val.some

(***************************************************************************)
(* C10 as stated: search_stories_with_progress emits no notification for   *)
(* an empty query or when the index path answers the query.                *)
(***************************************************************************)
C10_ProgressOnlyDuringScan ==
    ( /\ last.op = "search_stories_with_progress"
      /\ LastTrimmed = <<>> \/ LastIndexAnswered )
    => events = <<>>

(***************************************************************************)
(* C10 amended: search_stories_with_progress emits scan notifications only *)
(* while the fallback scan runs, the first with current 0, then one per    *)
(* story scanned; an empty query emits exactly one done notification      *)
(* (1 of 1) and a query the index path answers exactly one index           *)
(* notification (1 of 1).                                                  *)
(***************************************************************************)
C10_ProgressNotifications ==
    last.op = "search_stories_with_progress" =>
        /\ LastTrimmed = <<>> => events = <<Progress("done", 1, 1)>>
        /\ LastIndexAnswered => events = <<Progress("index", 1, 1)>>
        /\ (LastTrimmed # <<>> /\ ~ LastIndexAnswered /\ last.result.ok) =>
              /\ events # <<>>
              /\ \A i \in DOMAIN events :
                    /\ events[i].phase = "scan"
                    /\ events[i].current = i - 1
                    /\ events[i].total =
                          Max(Len(collect_stories_for_index(dataDir).val), 1)
        /\ (LastTrimmed # <<>> /\ ~ LastIndexAnswered /\ ~ last.result.ok) =>
              events = <<>>

\* a search the index path answered, and the notification it emitted
C10_Witness ==
    /\ last.op = "search_stories_with_progress"
    /\ LastIndexAnswered
    /\ LastResults # <<>>
    /\ events # <<>>

(***************************************************************************)
(* The commands as concurrent tasks (commands.rs).  Every command first    *)
(* calls lock_service.  get_story_index_status, search_stories and the     *)
(* like keep the guard while they run.  sync_data, build_story_index and   *)
(* the grouped listings go through clone_service, which clones the service *)
(* (two paths) and drops the guard, and then run on a blocking thread, in  *)
(* steps that other tasks interleave with.                                 *)
(*   mutex   holder: 0 when the lock is free, else the task holding it;    *)
(*           poisoned: a task panicked while it held the guard             *)
(***************************************************************************)
Tasks == 1..NumTasks

ClonedCommands == {"sync_data", "build_story_index", "get_main_stories_grouped"}

HeldCommands == {"search_stories"}

\* the task returns `result` and is idle again
Return(t, result) ==
    tasks' = [tasks EXCEPT ![t] = [IdleTask EXCEPT !.result = result]]

Goto(t, pc) == tasks' = [tasks EXCEPT ![t].pc = pc]

\* the frontend invokes a command
Invoke(t, cmd, c) ==
    /\ tasks[t].pc = "idle"
    /\ tasks' = [tasks EXCEPT ![t] = [IdleTask EXCEPT !.cmd = cmd, !.pc = "lock",
                                                      !.release = c]]
    /\ UNCHANGED <<dataDir, indexDb, last, events, mutex>>

\* lock_service as it would be with mutex.lock().unwrap(): a poisoned lock
\* is not given to the caller (C14 is tested against it)
LockServiceUnwrap(t) ==
    /\ tasks[t].pc = "lock"
    /\ mutex.holder = 0
    /\ ~ mutex.poisoned
    /\ mutex' = [mutex EXCEPT !.holder = t]
    /\ Goto(t, "held")
    /\ UNCHANGED <<dataDir, indexDb, last, events>>

\* lock_service: mutex.lock(), and into_inner() of a PoisonError: the guard
\* is had either way
LockService(t) ==
    /\ tasks[t].pc = "lock"
    /\ mutex.holder = 0
    /\ mutex' = [mutex EXCEPT !.holder = t]
    /\ Goto(t, "held")
    /\ UNCHANGED <<dataDir, indexDb, last, events>>

\* clone_service: guard.clone(), drop(guard); the operation starts after it
CloneService(t) ==
    /\ tasks[t].pc = "held"
    /\ tasks[t].cmd \in ClonedCommands
    /\ mutex' = [mutex EXCEPT !.holder = 0]
    /\ Goto(t, IF tasks[t].cmd = "sync_data" THEN "remove" ELSE "guard")
    /\ UNCHANGED <<dataDir, indexDb, last, events>>

\* what the frontend sees of a Result: that it is Ok, or the error
ResultTag(r) == IF r.ok THEN "ok" ELSE r.err

\* search_stories under the guard
HeldSearch(t, query, env) ==
    /\ tasks[t].pc = "held"
    /\ tasks[t].cmd = "search_stories"
    /\ indexDb' = DbAfterSearch(indexDb, query, env)
    /\ tasks' = [tasks EXCEPT ![t].pc = "unlock",
                              ![t].result =
                                  ResultTag(search_stories(dataDir, indexDb, query, env))]
    /\ UNCHANGED <<dataDir, last, events, mutex>>

\* a panic in a command that holds the guard: the unwinding drops the
\* guard, which unlocks the mutex and marks it poisoned
HeldPanic(t) ==
    /\ tasks[t].pc = "held"
    /\ tasks[t].cmd \in HeldCommands
    /\ mutex' = [holder |-> 0, poisoned |-> TRUE]
    /\ Return(t, "panicked")
    /\ UNCHANGED <<dataDir, indexDb, last, events>>

\* the guard of a command that kept it is dropped at its return
Unlock(t) ==
    /\ tasks[t].pc = "unlock"
    /\ mutex' = [mutex EXCEPT !.holder = 0]
    /\ Return(t, tasks[t].result)
    /\ UNCHANGED <<dataDir, indexDb, last, events>>

\* extract_zip_at: remove_dir_all(data_dir)
SyncRemove(t) ==
    /\ tasks[t].pc = "remove"
    /\ dataDir' = NoData
    /\ Goto(t, "rename")
    /\ UNCHANGED <<indexDb, last, events, mutex>>

\* extract_zip_at: rename(extracted_root, data_dir)
SyncRename(t) ==
    /\ tasks[t].pc = "rename"
    /\ dataDir' = Installed(tasks[t].release)
    /\ Goto(t, "clear")
    /\ UNCHANGED <<indexDb, last, events, mutex>>

\* sync_data: clear_story_index, write_version, return
SyncClear(t, clear_ok) ==
    /\ tasks[t].pc = "clear"
    /\ indexDb' = clear_story_index(indexDb, clear_ok)
    /\ Return(t, "ok")
    /\ UNCHANGED <<dataDir, last, events, mutex>>

\* the is_installed guard of rebuild_story_index and of a grouped listing
Guard(t) ==
    /\ tasks[t].pc = "guard"
    /\ IF is_installed(dataDir)
       THEN Goto(t, IF tasks[t].cmd = "build_story_index" THEN "init" ELSE "read")
       ELSE Return(t, "NOT_INSTALLED")
    /\ UNCHANGED <<dataDir, indexDb, last, events, mutex>>

\* rebuild_story_index: open_index_connection, init_index_tables
BuildInit(t) ==
    /\ tasks[t].pc = "init"
    /\ indexDb' = init_index_tables(open_index_connection(indexDb))
    /\ Goto(t, "collect")
    /\ UNCHANGED <<dataDir, last, events, mutex>>

\* the rows of the insert loop are held by the open transaction
Collected(t, indexed_stories) ==
    IF indexed_stories.ok
    THEN tasks' = [tasks EXCEPT ![t].pc = "commit",
                                ![t].rows = IndexRows(dataDir, indexed_stories.val)]
    ELSE Return(t, indexed_stories.err)

\* rebuild_story_index: collect_stories_for_index and the insert loop,
\* inside the transaction
BuildCollect(t) ==
    /\ tasks[t].pc = "collect"
    /\ Collected(t, collect_stories_for_index(dataDir))
    /\ UNCHANGED <<dataDir, indexDb, last, events, mutex>>

\* rebuild_story_index: tx.commit(); a database file removed since the
\* open takes the commit with it
BuildCommit(t) ==
    /\ tasks[t].pc = "commit"
    /\ indexDb' = IF indexDb.exists
                  THEN [indexDb EXCEPT !.rows = tasks[t].rows,
                                       !.last_built_at = Some(Timestamp),
                                       !.total_count = Some(Len(tasks[t].rows))]
                  ELSE indexDb
    /\ Return(t, "ok")
    /\ UNCHANGED <<dataDir, last, events, mutex>>

\* a grouped listing reads story_review_table.json
GroupedRead(t) ==
    /\ tasks[t].pc = "read"
    /\ Return(t, IF ~ is_installed(dataDir) THEN "Failed to read story review file"
                 ELSE ResultTag(get_stories_grouped(dataDir)))
    /\ UNCHANGED <<dataDir, indexDb, last, events, mutex>>

TaskNext ==
    \E t \in Tasks :
        \/ \E cmd \in ClonedCommands \cup HeldCommands, c \in Corpora : Invoke(t, cmd, c)
        \/ LockService(t)
        \/ CloneService(t)
        \/ \E query \in Queries, env \in Envs : HeldSearch(t, query, env)
        \/ HeldPanic(t)
        \/ Unlock(t)
        \/ SyncRemove(t)
        \/ SyncRename(t)
        \/ \E clear_ok \in BOOLEAN : SyncClear(t, clear_ok)
        \/ Guard(t)
        \/ BuildInit(t)
        \/ BuildCollect(t)
        \/ BuildCommit(t)
        \/ GroupedRead(t)

TaskSpec == Init /\ [][TaskNext]_vars

\* the task is inside an operation on the data directory or the index
Working(t) ==
    tasks[t].pc \in {"held", "unlock", "remove", "rename", "clear", "guard",
                     "init", "collect", "commit", "read"}

(***************************************************************************)
(* C4: operations on the service are mutually exclusive: at no time are    *)
(* two commands at work on the data directory or the index database.       *)
(***************************************************************************)
C4_MutualExclusion ==
    \A t1, t2 \in Tasks : (t1 # t2 /\ Working(t1)) => ~ Working(t2)

(***************************************************************************)
(* C11: for a non-empty query, when search_stories returns fewer than      *)
(* SEARCH_RESULT_LIMIT results, every story of collect_stories_for_index   *)
(* whose normalized name or normalized readable script contains the        *)
(* normalized query is in the result, whatever the index holds.            *)
(***************************************************************************)
\* the story matches the query of the last search by its name or script
LastQueryHits(story) ==
    \/ Contains(normalize_nfkc_lower_strip_marks(story.story_name),
                normalize_nfkc_lower_strip_marks(LastTrimmed))
    \/ /\ read_story_text(dataDir, story.story_txt).ok
       /\ Contains(normalize_nfkc_lower_strip_marks(
                       read_story_text(dataDir, story.story_txt).val),
                   normalize_nfkc_lower_strip_marks(LastTrimmed))

\* the stories a rebuild or a scan goes over
IndexEligible ==
    IF collect_stories_for_index(dataDir).ok
    THEN collect_stories_for_index(dataDir).val ELSE <<>>

C11_FallbackRecall ==
    ( /\ last.op = "search_stories" /\ last.result.ok /\ LastTrimmed # <<>>
      /\ Len(LastResults) < SEARCH_RESULT_LIMIT )
    => \A i \in DOMAIN IndexEligible :
          LastQueryHits(IndexEligible[i]) =>
              IndexEligible[i].story_id \in StoryIdsOf(LastResults)

\* a search over a stale index: the index had rows and returned nothing,
\* the one story in the result was found by the scan
C11_Witness ==
    /\ last.op = "search_stories" /\ last.result.ok
    /\ DbAfterInit(last.pre, last.env).rows # <<>>
    /\ LastIndexResults = <<>>
    /\ Len(LastResults) = 1
    /\ Len(LastResults) < SEARCH_RESULT_LIMIT

(***************************************************************************)
(* C12: once sync_data or a ZIP import has changed the content of the data *)
(* directory, no search is answered from index rows built from the         *)
(* previous content: the rows behind an index answer are the rows a        *)
(* rebuild makes from the content the search runs on.                      *)
(***************************************************************************)
C12_IndexInvalidated ==
    (last.op \in SearchOps /\ last.result.ok /\ LastIndexResults # <<>>) =>
        DbAfterInit(last.pre, last.env).rows = IndexRows(dataDir, IndexEligible)

(***************************************************************************)
(* C13: a story whose script file cannot be read is skipped by             *)
(* rebuild_story_index and by the fallback scan, every other story is      *)
(* still processed and the operation returns Ok; get_story_content returns *)
(* the same read failure to its caller as an error.                        *)
(***************************************************************************)
\* the script file of the story is there to be read
Readable(story_path) == KindScript(dataDir.stories[story_path]).some

RowIds(rows) == { rows[i].story_id : i \in DOMAIN rows }

C13_ReadFailureSkipsStory ==
    /\ ( /\ last.op = "build_story_index" /\ last.env.fault = "none"
         /\ collect_stories_for_index(dataDir).ok )
       => /\ last.result.ok
          /\ \A i \in DOMAIN IndexEligible :
                IndexEligible[i].story_id \in RowIds(indexDb.rows)
                    <=> Readable(IndexEligible[i].story_txt)
    /\ ( /\ last.op \in SearchOps /\ LastTrimmed # <<>>
         /\ collect_stories_for_index(dataDir).ok )
       => /\ LastFallback.ok
          /\ Len(LastFallback.val) < SEARCH_RESULT_LIMIT =>
                \A i \in DOMAIN IndexEligible :
                    LastQueryHits(IndexEligible[i]) =>
                        IndexEligible[i].story_id \in StoryIdsOf(LastFallback.val)
    /\ ( /\ last.op = "get_story_content" /\ is_installed(dataDir)
         /\ ~ Readable(last.query[1]) )
       => ~ last.result.ok

\* a rebuild that met an unreadable script and indexed a story behind it
C13_Witness ==
    /\ last.op = "build_story_index" /\ last.result.ok
    /\ \E i, j \in DOMAIN IndexEligible :
          /\ i < j
          /\ ~ Readable(IndexEligible[i].story_txt)
          /\ IndexEligible[j].story_id \in RowIds(indexDb.rows)

(***************************************************************************)
(* C14: after a command panicked while it held the service lock, a later   *)
(* command that asks for the lock gets it as soon as the lock is free: the *)
(* poisoned lock stops no command.  (The service behind the lock is two    *)
(* paths, which no command writes.)                                        *)
(***************************************************************************)
C14_PoisonRecovered ==
    \A t \in Tasks :
        (tasks[t].pc = "lock" /\ mutex.holder = 0) => ENABLED LockService(t)

\* a command holds the lock it took after another one panicked with it
C14_Witness ==
    /\ mutex.poisoned
    /\ mutex.holder # 0
    /\ tasks[mutex.holder].pc = "held"
    /\ \E t \in Tasks : tasks[t].result = "panicked"

(***************************************************************************)
(* The text functions on their own: the query compiler, the tokenizer and  *)
(* the parser applied to inputs drawn from bounded sets.  `last` holds the *)
(* input (op "query": the words of a query, "text": the characters of a    *)
(* text, "script": the lines of a script) and, once the function has been  *)
(* applied, its name and its result.  Nothing is installed and no command  *)
(* is in flight.                                                           *)
(***************************************************************************)
\* the sequences over S of length 0..n
SeqsUpTo(S, n) == UNION { [1..k -> S] : k \in 0..n }

\* the number of whitespace-separated words of a query
MaxWords == 3

\* the words of a query: bare terms, `or` in two cases, negated terms, a
\* bare dash, quoted spans (holding `or`, a leading dash, a space), a
\* negated quoted span, an empty quoted span, punctuation and a CJK run
QueryWords ==
    { <<"a">>, <<"B">>, <<"o", "r">>, <<"O", "R">>, <<"-", "a">>, <<"-">>,
      <<"\"", "o", "r", "\"">>, <<"\"", "-", "a", "\"">>,
      <<"\"", "a", " ", "b", "\"">>, <<"-", "\"", "a", "\"">>,
      <<"\"", "\"">>, <<".">>, <<"zh1", "zh2">> }

Input(kind, value) == Call(kind, value, NoEnv, Ok("unit"), NoIndex)

QueryInputs == { Input("query", ws) : ws \in SeqsUpTo(QueryWords, MaxWords) }

\* the raw query a sequence of words stands for
RawQuery(words) == Join(words, <<" ">>)

\* build_fts_query_advanced applied to the query
CompileQuery ==
    /\ last.op = "query"
    /\ last' = [last EXCEPT !.op = "build_fts_query_advanced",
                            !.result = build_fts_query_advanced(RawQuery(last.query))]
    /\ UNCHANGED <<dataDir, indexDb, events, tasks, mutex>>

\* a word that is the `or` keyword in any letter case
IsOrWord(w) == MapLower(w) = W_or

\* a word that is one double-quoted span
IsQuotedWord(w) == Len(w) >= 2 /\ Head(w) = "\"" /\ w[Len(w)] = "\""

Unquoted(w) == IF IsQuotedWord(w) THEN SubSeq(w, 2, Len(w) - 1) ELSE w

TermOf(text, is_not) ==
    IF text = <<>> THEN None
    ELSE Some([raw |-> normalize_nfkc_lower_strip_marks(text), is_not |-> is_not])

\* the term a word of the query is written as: a quoted span is the term
\* between its quotes, a word with a leading dash the negated rest
WordTerm(w) ==
    IF IsQuotedWord(w) THEN TermOf(Unquoted(w), FALSE)
    ELSE IF Head(w) = "-" THEN TermOf(Unquoted(TrimStartChar(w, "-")), TRUE)
    ELSE TermOf(w, FALSE)

\* the terms of the words from position i on, in order, each with whether
\* an `or` keyword stands between it and the term before it
RECURSIVE WordTerms(_, _, _)
WordTerms(words, i, or_seen) ==
    IF i > Len(words) THEN <<>>
    ELSE IF IsOrWord(words[i]) THEN WordTerms(words, i + 1, TRUE)
    ELSE IF ~ WordTerm(words[i]).some THEN WordTerms(words, i + 1, or_seen)
    ELSE <<[term |-> WordTerm(words[i]).val, is_or |-> or_seen]>>
         \o WordTerms(words, i + 1, FALSE)

TermPiece(t) == (IF t.is_not THEN W_NOT ELSE <<>>) \o to_phrase_if_cjk(t.raw)

\* the terms in order with exactly one connective between neighbours
RECURSIVE Connected(_)
Connected(wts) ==
    IF Len(wts) = 1 THEN TermPiece(wts[1].term)
    ELSE Connected(SubSeq(wts, 1, Len(wts) - 1))
         \o <<" ">> \o (IF wts[Len(wts)].is_or THEN W_OR ELSE W_AND) \o <<" ">>
         \o TermPiece(wts[Len(wts)].term)

LastCompiled == last.op = "build_fts_query_advanced"

\* C15: build_fts_query_advanced emits the terms of the query in input
\* order with exactly one connective between consecutive terms, OR when a
\* standalone `or` (any letter case) precedes the term and AND otherwise; a
\* term written with a leading `-` is emitted with a leading NOT; a quoted
\* span is one term, and `or` or a leading `-` inside it is no operator.
C15_TermsAndConnectives ==
    (LastCompiled /\ WordTerms(last.query, 1, FALSE) # <<>>)
        => last.result = Some(Connected(WordTerms(last.query, 1, FALSE)))

\* the same for queries in which no dash stands directly before a quote
C15_ExceptDashBeforeQuote ==
    (/\ LastCompiled
     /\ WordTerms(last.query, 1, FALSE) # <<>>
     /\ \A i \in DOMAIN last.query :
            ~ (Head(last.query[i]) = "-" /\ IsQuotedWord(TrimStartChar(last.query[i], "-"))))
        => last.result = Some(Connected(WordTerms(last.query, 1, FALSE)))

\* the characters of a text handed to the tokenizer
MaxChars == 3

TextChars == {"a", "B", "1", " ", ".", "e", "acute", "fiLig", "zh1", "zhComma",
              "IDSP", "ldquo"}

TextInputs == { Input("text", s) : s \in SeqsUpTo(TextChars, MaxChars) }

\* tokenize_for_fts applied to the text
Tokenize ==
    /\ last.op = "text"
    /\ last' = [last EXCEPT !.op = "tokenize_for_fts",
                            !.result = tokenize_for_fts(last.query)]
    /\ UNCHANGED <<dataDir, indexDb, events, tasks, mutex>>

\* the lines of a script handed to the parser
MaxLines == 3

\* the attribute part of a command line as it is written (src), with the
\* values of its text, options and dialogHead attributes (empty when it
\* has none)
ScriptAttrs ==
    { [src |-> <<>>,
       text |-> <<>>, options |-> <<>>, head |-> <<>>],
      [src |-> <<"=", "\"", "zh1", "\"">>,
       text |-> <<>>, options |-> <<>>, head |-> <<>>],
      [src |-> <<"(", "t", "e", "x", "t", "=", "\"", "\"", ")">>,
       text |-> <<>>, options |-> <<>>, head |-> <<>>],
      [src |-> <<"(", "t", "e", "x", "t", "=", "\"", ".", "\"", ")">>,
       text |-> <<".">>, options |-> <<>>, head |-> <<>>],
      [src |-> <<"(", "t", "e", "x", "t", "=", "\"", "a", "\"", ")">>,
       text |-> <<"a">>, options |-> <<>>, head |-> <<>>],
      [src |-> <<"(", "o", "p", "t", "i", "o", "n", "s", "=", "\"", ".", "\"", ")">>,
       text |-> <<>>, options |-> <<".">>, head |-> <<>>],
      [src |-> <<"(", "o", "p", "t", "i", "o", "n", "s", "=", "\"", ";", "\"", ")">>,
       text |-> <<>>, options |-> <<";">>, head |-> <<>>],
      [src |-> <<"(", "o", "p", "t", "i", "o", "n", "s", "=", "\"", "a", ";", ".", "\"", ")">>,
       text |-> <<>>, options |-> <<"a", ";", ".">>, head |-> <<>>],
      [src |-> <<"(", "n", "a", "m", "e", "=", "\"", "zh1", "\"", ",", " ", "t", "e", "x", "t", "=", "\"", "a", "\"", ")">>,
       text |-> <<"a">>, options |-> <<>>, head |-> <<>>] }

NoAttr == [src |-> <<>>, text |-> <<>>, options |-> <<>>, head |-> <<>>]

\* the commands of the dispatch table and one command outside it
ScriptCommands ==
    { C_name, C_multiline, C_decision, C_popupdialog, C_tutorial, C_subtitle,
      C_sticker, C_header, C_title, C_dialog, C_voicewithin, C_narration,
      C_animtext, C_div, <<"x">> }

\* the text after the closing bracket
ScriptRemainders ==
    { <<>>, <<".">>, <<".", ".">>, <<".", ".", ".", ".">>, <<" ", ".", " ">>, <<"a">> }

\* a line of a script: a command with its attributes and its remainder, or
\* (command empty) the remainder alone
CommandLines ==
    [command : ScriptCommands, attr : ScriptAttrs, remainder : ScriptRemainders]

NameLine(name, text) ==
    [command |-> C_name, attr |-> [NoAttr EXCEPT !.src = <<"=", "\"", name, "\"">>],
     remainder |-> text]

PlainLine(text) == [command |-> <<>>, attr |-> NoAttr, remainder |-> text]

\* lines of dialogue of two speakers, one of them without text, a line of
\* narration and an empty line
DialogueLines ==
    { NameLine("zh1", <<"a">>), NameLine("zh1", <<" ", "b">>), NameLine("zh2", <<"a">>),
      NameLine("zh1", <<>>), PlainLine(<<"a">>), PlainLine(<<>>) }

\* popupdialog and tutorial lines with a dialogHead attribute
DialogHeads ==
    { <<"$", "a", "v", "a", "t", "a", "r", "_", "s", "y", "s">>,
      <<"a", "v", "a", "t", "a", "r", "_", "S", "y", "s">>, <<"s", "y", "s">> }

HeadLine(command, head, text) ==
    [command |-> command,
     attr |-> [NoAttr EXCEPT
                 !.src = <<"(", "d", "i", "a", "l", "o", "g", "H", "e", "a", "d", "=", "\"">>
                         \o head \o <<"\"", ")">>,
                 !.head = head],
     remainder |-> text]

HeadLines ==
    { HeadLine(c, h, t) : c \in {C_popupdialog, C_tutorial}, h \in DialogHeads,
                          t \in {<<>>, <<" ", "a">>} }

LineText(l) ==
    IF l.command = <<>> THEN l.remainder
    ELSE <<"[">> \o l.command \o l.attr.src \o <<"]">> \o l.remainder

\* the content of the script file the lines stand for
ScriptText(lines) == Join([i \in DOMAIN lines |-> LineText(lines[i])], <<"\n">>)

ScriptInputs ==
    { Input("script", <<l>>) : l \in CommandLines \cup HeadLines }
    \cup { Input("script", ls) : ls \in SeqsUpTo(DialogueLines, MaxLines) }

\* parse_story_text applied to the script
ParseStoryText ==
    /\ last.op = "script"
    /\ last' = [last EXCEPT !.op = "parse_story_text",
                            !.result = parse_story_text(ScriptText(last.query))]
    /\ UNCHANGED <<dataDir, indexDb, events, tasks, mutex>>

\* the characters of a content a snippet is cut from
MaxContent == 3

ContentChars == {"a", "b", "A", " ", "NBSP", "fiLig"}

\* normalized queries
ContextQueries == { <<"a">>, <<"b">>, <<"a", " ", "b">>, <<"f", "i">> }

ContextInputs ==
    { Input("context", [content |-> c, query |-> q]) :
          c \in SeqsUpTo(ContentChars, MaxContent), q \in ContextQueries }

\* extract_context applied to the content and the normalized query
ExtractContext ==
    /\ last.op = "context"
    /\ last' = [last EXCEPT !.op = "extract_context",
                            !.result = extract_context(last.query.content,
                                                       last.query.query)]
    /\ UNCHANGED <<dataDir, indexDb, events, tasks, mutex>>

TextInit ==
    /\ dataDir = NoData /\ indexDb = NoIndex
    /\ events = <<>>
    /\ tasks = IdleTasks
    /\ mutex = FreeMutex
    /\ \/ last \in QueryInputs
       \/ last \in TextInputs
       \/ last \in ScriptInputs
       \/ last \in ContextInputs

TextNext == CompileQuery \/ Tokenize \/ ParseStoryText \/ ExtractContext

TextSpec == TextInit /\ [][TextNext]_vars

\* a word made only of punctuation characters (a bare dash is one)
PurePunctuation(w) == \A i \in DOMAIN w : is_common_punctuation(w[i])

\* a row of the index with no token in any column
BlankRow == [story_id |-> 1, story_name |-> <<>>, tokenized_content |-> <<>>]

\* the result is an expression: not empty, and not one every row matches
IsExpression(result, raw_query) ==
    /\ result.some
    /\ result.val # <<>>
    /\ ~ FtsMatches(QueryTerms(raw_query), BlankRow)

\* C16: build_fts_query_advanced returns none exactly when the query
\* yields zero terms, which is when every word of it is an `or` token or
\* consists purely of punctuation (the empty and the whitespace-only query
\* have no word at all); otherwise it returns a non-empty expression, and
\* never one that matches everything.
C16_NoneIffNoTerms ==
    LastCompiled =>
        IF \A i \in DOMAIN last.query :
               IsOrWord(last.query[i]) \/ PurePunctuation(last.query[i])
        THEN last.result = None
        ELSE IsExpression(last.result, RawQuery(last.query))

\* the same with the words that leave no term in the code: `or`, dashes
\* only, and the empty quoted span
C16_NoneIffNoWordTerm ==
    LastCompiled =>
        IF \A i \in DOMAIN last.query :
               \/ IsOrWord(last.query[i])
               \/ TrimStartChar(last.query[i], "-") = <<>>
               \/ last.query[i] = <<"\"", "\"">>
        THEN last.result = None
        ELSE IsExpression(last.result, RawQuery(last.query))

\* the tokens one after the other, without the join separators
RECURSIVE Concatenated(_)
Concatenated(tokens) ==
    IF tokens = <<>> THEN <<>> ELSE Head(tokens) \o Concatenated(Tail(tokens))

\* a character the tokenizer separates on or drops: whitespace, or one of
\* the fixed set of punctuation characters
IsSeparator(ch) == IsWhitespace(ch) \/ is_common_punctuation(ch)

\* the characters of the text that are neither whitespace nor punctuation
NonSeparators(text) == SelectSeq(text, LAMBDA ch : ~ IsSeparator(ch))

LastTokenized == last.op = "tokenize_for_fts"

\* C17: the tokens of tokenize_for_fts, concatenated in order, are exactly
\* the characters of the normalized input that are neither whitespace nor
\* punctuation (the fixed set of is_common_punctuation), in their original
\* order: none is lost, duplicated or reordered, and no whitespace or
\* punctuation character appears in a token.
C17_TokensCoverText ==
    LastTokenized =>
        /\ Concatenated(last.result)
             = NonSeparators(normalize_nfkc_lower_strip_marks(last.query))
        /\ \A i \in DOMAIN last.result :
               \A j \in DOMAIN last.result[i] : ~ IsSeparator(last.result[i][j])

\* a text with an ASCII run that ends the text, a separator and a
\* character outside the ASCII range has been tokenized
C17_Witness ==
    /\ LastTokenized
    /\ Len(last.result) = 2
    /\ \E i \in DOMAIN last.query : IsSeparator(last.query[i])
    /\ \E i \in DOMAIN last.query : ~ IsAsciiAlnum(last.query[i]) /\ ~ IsSeparator(last.query[i])
    /\ IsAsciiAlnum(last.query[Len(last.query)])

LastParsed == last.op = "parse_story_text"

\* the script was one command line
LastCommandLine == LastParsed /\ Len(last.query) = 1 /\ last.query[1].command # <<>>

\* the text a command line resolves to: the text attribute for subtitle
\* and sticker, the options for decision, the remainder or else the text
\* attribute for dialog, voicewithin, narration and animtext, the
\* remainder for every other command
ResolvedText(l) ==
    CASE l.command \in {C_subtitle, C_sticker} -> clean_text(l.attr.text)
      [] l.command = C_decision -> clean_text(l.attr.options)
      [] l.command \in {C_dialog, C_voicewithin, C_narration, C_animtext} ->
            clean_text(IF Trim(l.remainder) = <<>> THEN l.attr.text ELSE l.remainder)
      [] OTHER -> clean_text(l.remainder)

\* the meaningful-content filter: at most 3 characters, all of them ASCII
\* punctuation
FailsFilter(text) ==
    Len(text) <= 3 /\ \A i \in DOMAIN text : IsAsciiPunctuation(text[i])

FilteredCommands ==
    { C_dialog, C_voicewithin, C_narration, C_animtext, C_title, C_div, <<"x">> }

\* the commands that only test their text for emptiness
NonEmptyCommands ==
    { C_name, C_multiline, C_popupdialog, C_tutorial, C_header, C_subtitle, C_sticker }

\* no option of the options attribute is left after cleaning
NoOption(l) ==
    \A i \in DOMAIN SplitOn(l.attr.options, {";"}) :
        clean_text(SplitOn(l.attr.options, {";"})[i]) = <<>>

\* the line carries the name attribute the name and multiline commands
\* take the speaker from
HasName(l) == K_name \in DOMAIN parse_attributes(l.command \o l.attr.src)

\* the drop rule for one command line l with the segments it produced
DropRule(l, segments) ==
    /\ (l.command \in FilteredCommands /\ FailsFilter(ResolvedText(l)))
          => segments = <<>>
    /\ (l.command \in NonEmptyCommands /\ ResolvedText(l) = <<>>)
          => segments = <<>>
    /\ (l.command = C_decision /\ NoOption(l)) => segments = <<>>
    /\ (/\ l.command \in NonEmptyCommands
        /\ ResolvedText(l) # <<>>
        /\ l.command \in {C_name, C_multiline} => HasName(l))
          => Len(segments) = 1
    /\ (l.command = C_decision /\ ~ NoOption(l)) => Len(segments) = 1

IsDialogueLine(l) ==
    /\ l.command = C_name
    /\ Len(l.attr.src) = 4 /\ l.attr.src[1] = "="
    /\ clean_text(l.remainder) # <<>>

SpeakerOf(l) == <<l.attr.src[3]>>

\* two or more lines, all of them dialogue lines of one speaker
SameSpeakerRun(lines) ==
    /\ Len(lines) >= 2
    /\ \A i \in DOMAIN lines :
           IsDialogueLine(lines[i]) /\ SpeakerOf(lines[i]) = SpeakerOf(lines[1])

\* C19: parse_story_text merges consecutive Dialogue lines of the same
\* speaker into a single Dialogue segment whose text contains the text of
\* every merged line; three consecutive lines of one speaker yield exactly
\* one segment.
C19_SameSpeakerMerged ==
    (LastParsed /\ SameSpeakerRun(last.query))
        => /\ Len(last.result) = 1
           /\ last.result[1].type = "Dialogue"
           /\ \A i \in DOMAIN last.query :
                  Contains(last.result[1].text, clean_text(last.query[i].remainder))

\* the segments of every line parsed on its own, in the order of the lines
RECURSIVE LineByLine(_)
LineByLine(lines) ==
    IF lines = <<>> THEN <<>>
    ELSE parse_story_text(LineText(Head(lines))) \o LineByLine(Tail(lines))

WithoutPrefix(value) ==
    StripHumanizePrefix(value, HumanizePrefixHits(value))

BareIdentifier(raw) == WithoutPrefix(TrimStartChar(raw, "$"))

\* C21: a popupdialog or tutorial line with remainder text yields a System
\* segment whose text is the cleaned remainder and whose speaker is the
\* dialogHead attribute with the leading `$` and the known prefix removed
\* and its letter case unchanged (`$avatar_sys` gives `sys`).
C21_SystemSpeaker ==
    (/\ LastCommandLine
     /\ last.query[1].attr.head # <<>>
     /\ clean_text(last.query[1].remainder) # <<>>)
        => last.result = <<[type |-> "System",
                            speaker |-> Some(BareIdentifier(last.query[1].attr.head)),
                            text |-> clean_text(last.query[1].remainder)]>>

\* the same with the first letter of the speaker in upper case
C21_SystemSpeakerCapitalized ==
    (/\ LastCommandLine
     /\ last.query[1].attr.head # <<>>
     /\ clean_text(last.query[1].remainder) # <<>>)
        => last.result
             = <<[type |-> "System",
                  speaker |-> Some(<<ToUpperChar(Head(BareIdentifier(last.query[1].attr.head)))>>
                                   \o Tail(BareIdentifier(last.query[1].attr.head))),
                  text |-> clean_text(last.query[1].remainder)]>>

LastExtracted == last.op = "extract_context"

\* the position of the first match of the query in the normalized content
\* (0: none), in characters
MatchAt(content, query) == Find(normalize_nfkc_lower_strip_marks(content), query)

\* the content sliced by character index around a match that has c
\* characters before it and is m characters long
ContextSlice(content, c, m) ==
    SubSeq(content, Max(c - ContextWindow, 0) + 1,
           Min(c + m + ContextWindow, Len(content)))

\* C22: whenever the normalized query occurs in the normalized content,
\* extract_context returns a non-empty snippet `...X...`, X being the
\* original content sliced by character index around the match (trimmed),
\* with the number of characters before the match and its length counted
\* in the normalized string; also when normalization changes the byte
\* length of the characters before the match.
C22_SnippetAtMatch ==
    (LastExtracted /\ MatchAt(last.query.content, last.query.query) # 0)
        => /\ last.result # <<>>
           /\ last.result
                = Ellipsis
                  \o Trim(ContextSlice(last.query.content,
                                       MatchAt(last.query.content, last.query.query) - 1,
                                       Len(last.query.query)))
                  \o Ellipsis

\* the same for contents whose characters keep their byte length under
\* normalization
C22_SnippetSameBytes ==
    (/\ LastExtracted
     /\ MatchAt(last.query.content, last.query.query) # 0
     /\ \A i \in DOMAIN last.query.content :
            NormChar(last.query.content[i]) # <<>>
            /\ Len(NormChar(last.query.content[i])) = 1
            /\ Utf8Len(NormChar(last.query.content[i])[1]) = Utf8Len(last.query.content[i]))
        => last.result
             = Ellipsis
               \o Trim(ContextSlice(last.query.content,
                                    MatchAt(last.query.content, last.query.query) - 1,
                                    Len(last.query.query)))
               \o Ellipsis

LastRebuild == last.op = "build_story_index"

\* the rebuild got past init_index_tables
RebuildPastInit ==
    /\ LastRebuild
    /\ last.result # NotInstalled
    /\ last.env.fault \notin {"open", "init"}

\* the rows of the index are those this rebuild inserted, or none
OnlyRebuiltRows ==
    \/ indexDb.rows = <<>>
    \/ last.result.ok /\ indexDb.rows = IndexRows(dataDir, IndexEligible)

\* C23: when rebuild_story_index finds a stored index_version (absent
\* counts as 0) lower than INDEX_VERSION, the story_index table is dropped
\* and recreated and index_version is set to INDEX_VERSION before the first
\* row is inserted; once index_version equals INDEX_VERSION no row inserted
\* under the older version remains.
C23_MigrationBeforeInsert ==
    (LastRebuild /\ last.pre.index_version < INDEX_VERSION)
        => /\ RebuildPastInit => indexDb.index_version = INDEX_VERSION
           /\ indexDb.index_version = INDEX_VERSION => OnlyRebuiltRows

\* an index of an older version, built from other content, was rebuilt
C23_Witness ==
    /\ LastRebuild
    /\ last.pre.index_version < INDEX_VERSION
    /\ last.pre.rows # <<>>
    /\ last.result.ok
    /\ indexDb.index_version = INDEX_VERSION
    /\ indexDb.rows # <<>>
    /\ \A i \in DOMAIN last.pre.rows : \A j \in DOMAIN indexDb.rows :
           last.pre.rows[i] # indexDb.rows[j]

(***************************************************************************)
(* The index rebuild on data directories whose tables hold a story id more *)
(* than once, entries with a blank story_txt and stories without tokens.   *)
(***************************************************************************)
\* entries of the additional sources
MaxExtra == 2

IndexKinds == {"N", "U", "P", "B", "F"}

ExtraSources == SeqsUpTo([story_id : StoryIds, blank : BOOLEAN], MaxExtra)

IndexInit ==
    /\ \E c \in [StoryIds -> IndexKinds], x \in ExtraSources :
           dataDir = [Installed(c) EXCEPT !.extra = x]
    /\ indexDb \in {NoIndex, LegacyIndex(dataDir)}
    /\ last = NoCall
    /\ events = <<>>
    /\ tasks = IdleTasks
    /\ mutex = FreeMutex

IndexNext == \E fault \in RebuildFaults : BuildStoryIndex(fault)

IndexSpec == IndexInit /\ [][IndexNext]_vars

\* every entry of the tables, in the order the loops meet them
AllEntries == ReviewEntries(dataDir, 1) \o ExtraEntries(dataDir)

\* C24: after any successful rebuild no two index rows share a story_id,
\* also when the same story_id occurs in several sources (review table,
\* roguelike, record and rune tables), and no row belongs to an entry whose
\* story_txt is empty or blank.
C24_UniqueStoryIds ==
    (LastRebuild /\ last.result.ok)
        => /\ \A i, j \in DOMAIN indexDb.rows :
                  i # j => indexDb.rows[i].story_id # indexDb.rows[j].story_id
           /\ \A i \in DOMAIN indexDb.rows :
                  \E k \in DOMAIN AllEntries :
                      /\ AllEntries[k].story_id = indexDb.rows[i].story_id
                      /\ AllEntries[k].story_name = indexDb.rows[i].story_name
                      /\ AllEntries[k].story_txt # 0

\* a story that two sources list with a script path, and one that only an
\* entry with a blank story_txt lists, went through a successful rebuild
C24_Witness ==
    /\ LastRebuild /\ last.result.ok
    /\ \E i, j \in DOMAIN AllEntries :
           /\ i < j
           /\ AllEntries[i].story_id = AllEntries[j].story_id
           /\ AllEntries[i].story_txt # 0 /\ AllEntries[j].story_txt # 0
           /\ AllEntries[i].story_id \in RowIds(indexDb.rows)
    /\ \E i \in DOMAIN AllEntries :
           /\ AllEntries[i].story_txt = 0
           /\ AllEntries[i].story_id \notin RowIds(indexDb.rows)

\* C25: every row in the index has non-empty tokenized_content, and the
\* index holds no row for a story whose script file could not be read
\* during the rebuild that produced the rows.
C25_RowsHaveTokens ==
    /\ \A i \in DOMAIN indexDb.rows : Trim(indexDb.rows[i].tokenized_content) # <<>>
    /\ (LastRebuild /\ last.result.ok)
          => \A i \in DOMAIN indexDb.rows :
                 read_story_text(dataDir, indexDb.rows[i].story_id).ok

\* a rebuild that wrote rows went over a story without tokens and over a
\* story whose script is missing
C25_Witness ==
    /\ LastRebuild /\ last.result.ok
    /\ indexDb.rows # <<>>
    /\ \E i \in StoryIds : dataDir.stories[i] = "P" /\ i \notin RowIds(indexDb.rows)
    /\ \E i \in StoryIds : dataDir.stories[i] = "U" /\ i \notin RowIds(indexDb.rows)

\* the row of story i as the content of the data directory gives it: the
\* name, and the name and the script as raw content
IsRowOfContent(row) ==
    /\ row.story_name = KindName(dataDir.stories[row.story_id])
    /\ row.raw_content = KindName(dataDir.stories[row.story_id]) \o <<"\n">>
                         \o KindScript(dataDir.stories[row.story_id]).val

\* C26: after a successful rebuild_story_index the index rows are exactly
\* the rows derived from the content present during that rebuild, one per
\* story that has a readable script, in the order of the story ids: every
\* row written by an earlier build is gone, and repeating the rebuild on
\* unchanged content yields the same rows with no duplicates.
C26_FullRebuild ==
    (LastRebuild /\ last.result.ok)
        => /\ \A i \in StoryIds :
                  i \in RowIds(indexDb.rows)
                    <=> (dataDir.stories[i] # "absent" /\ Readable(i))
           /\ \A i \in DOMAIN indexDb.rows : IsRowOfContent(indexDb.rows[i])
           /\ \A i, j \in DOMAIN indexDb.rows :
                  i < j => indexDb.rows[i].story_id < indexDb.rows[j].story_id
           /\ indexDb.total_count = Some(Len(indexDb.rows))

\* an index of the current version, built from other content, was rebuilt
C26_Witness ==
    /\ LastRebuild /\ last.result.ok
    /\ last.pre.index_version = INDEX_VERSION
    /\ last.pre.rows # <<>>
    /\ indexDb.rows # <<>>
    /\ \E i \in DOMAIN last.pre.rows : ~ IsRowOfContent(last.pre.rows[i])

\* get_story_index_status and the three search operations
ReadOps == SearchOps \cup {"get_story_index_status"}

Migrated(db) == [db EXCEPT !.rows = <<>>, !.index_version = INDEX_VERSION]

C28_TotalCountMatchesRows ==
    /\ (indexDb.exists /\ indexDb.total_count.some)
          => indexDb.total_count.val = Len(indexDb.rows)
    /\ (last.op = "get_story_index_status" /\ last.result.ok)
          => (last.result.val.ready <=> Len(indexDb.rows) > 0)

\* the second half of C28 for a database that can be opened
C28_ReadyIffRows ==
    (last.op = "get_story_index_status" /\ last.result.ok /\ last.env.fault # "open")
        => /\ last.result.val.ready <=> Len(indexDb.rows) > 0
           /\ last.result.val.total = Len(indexDb.rows)


\* the errors of a read of a file of the data directory
FileReadErrors == {"Failed to read story review file", "Failed to read story file"}

(***************************************************************************)
(* C29: a grouped listing, an index rebuild or a search that runs          *)
(* concurrently with sync_data or a ZIP import either succeeds or returns  *)
(* NOT_INSTALLED: no command returns a file-read error because the data    *)
(* directory was removed or replaced between its is_installed check and    *)
(* its file reads.                                                         *)
(***************************************************************************)
C29_NoReadErrorUnderSync ==
    \A t \in Tasks : tasks[t].result \notin FileReadErrors

\* a task is past the is_installed guard of a grouped listing while the
\* data directory is away
C29_GuardPassedDirectoryGone ==
    \E t \in Tasks : tasks[t].pc = "read" /\ ~ is_installed(dataDir)


(***************************************************************************)
(* C30: for the same non-empty query and the same content and index state, *)
(* search_stories_with_progress returns the result list search_stories     *)
(* returns, also when a non-empty index exists and the fallback scan finds *)
(* stories the index query does not return.                                *)
(***************************************************************************)
C30_ProgressSameAsSearch ==
    (last.op = "search_stories_with_progress" /\ LastTrimmed # <<>>) =>
        last.result = search_stories(dataDir, last.pre, last.query, last.env)

\* the progress search answered from the index
LastFromIndex ==
    /\ search_stories_with_index(last.pre, LastTrimmed, last.env).ok
    /\ search_stories_with_index(last.pre, LastTrimmed, last.env).val.some

\* the two agree whenever the index gives no answer (no database, an
\* empty table, a failed query)
C30_SameWithoutIndexAnswer ==
    ( /\ last.op = "search_stories_with_progress" /\ LastTrimmed # <<>>
      /\ ~ LastFromIndex )
    => last.result = search_stories(dataDir, last.pre, last.query, last.env)

====
